---- MODULE Spec2Model ----
(***************************************************************************)
(* Elena DJ (src/backend.py, src/main.py): the session authenticator      *)
(* (OAuth contexts, durable token cache, pool of live catalog handles)     *)
(* and the track resolver of class ElenaDJ.                                *)
(*                                                                         *)
(* The two source files carry two versions of class ElenaDJ; the variable  *)
(* `variant` says which one a behaviour runs.  The catalog / OAuth         *)
(* provider is the environment: whether a call succeeds is decided by the  *)
(* environment's state (network up, token rejected, token expired), which  *)
(* changes only by the environment's own actions or, inside a handler that *)
(* makes two network calls in a row, by a drop recorded in the state.      *)
(***************************************************************************)
EXTENDS Integers, Sequences, FiniteSets, TLC

\* ------------------------------------------------------------- bounds
MaxTokens == 2      \* tokens the provider mints in one behaviour
MaxTarget == 2      \* target_count ranges over 0..MaxTarget
MaxLabelLen == 6    \* candidate labels of up to MaxLabelLen characters
MaxTracks == 6      \* track lists of up to MaxTracks identifiers go to create_playlist
MaxPlaylists == 2   \* playlists the provider holds in one behaviour

\* ------------------------------------------------------------- domains
Variants == {"backend", "main"}
Sessions == {"default", "other"}
\* the session ids a callback URL arrives for: every caller in both files
\* passes no session id, so only "default" is ever authenticated
CallbackSessions == {"default"}
Users == {"u1", "u2"}
PyNone == "<None>"
DisplayNames == {PyNone, "", "Ann"}
Absent == "<absent>"

VARIABLES
    variant,          \* which source file's ElenaDJ runs
    spotify_clients,  \* self.spotify_clients: ordered dict user id -> handle
    spotify_auths,    \* self.spotify_auths: the session ids that have an OAuth context
    token_cache,      \* .cache-spotify/spotify_token_<session id>, durable
    next_tok,         \* next token id the provider mints
    clock_expired,    \* token ids for which is_token_expired is true
    rejected,         \* token ids whose access token the provider rejects
    net_up,           \* the network is reachable
    last,             \* the last operation: its arguments, result and calls
    \* search_ai_recommended_tracks, one run
    r_pc,             \* "idle", "head" (loop head), "search", "inspect", "done"
    search_data,      \* recommended_songs and language_preference
    target_count,
    r_cand,           \* index of song_recommendation in recommended_songs
    r_market,         \* index of market in markets
    r_query,          \* index of query in search_queries
    r_results,        \* results['tracks']['items'] of the search being inspected
    r_track,          \* index of track in r_results
    track_uris,
    found_track,
    r_ret,            \* what the run returned
    catalog_called,   \* the run has called client.search or client.artist
    artist_info,      \* what the last client.artist call of the track loop answered
    r_search,         \* how the candidate's last client.search ended, "-" before it
    \* the label parse and the profile lookup of search_ai_recommended_tracks
    l_song,           \* song_recommendation
    l_language,       \* search_data.get('language_preference', 'English'), PyNone: no key
    l_artist,         \* artist
    l_title,          \* title
    l_config,         \* config
    \* create_playlist and the provider's playlists
    playlists,        \* the playlists on the provider: owner, public, items
    p_tracks,         \* track_uris of the last create_playlist
    p_calls,          \* the provider calls the last create_playlist made on its handle
    p_ret,            \* what the last create_playlist returned
    \* the deployment environment and what setup_apis made of it
    os_env,           \* os.getenv: the settings a redirect URI is resolved from
    redirect_uri      \* self.redirect_uri

resVars == <<r_pc, search_data, target_count, r_cand, r_market, r_query, r_results,
             r_track, track_uris, found_track, r_ret, catalog_called, artist_info,
             r_search>>

authVars == <<variant, spotify_clients, spotify_auths, token_cache, next_tok,
              clock_expired, rejected, net_up, last>>

labelVars == <<l_song, l_language, l_artist, l_title, l_config>>

pubVars == <<playlists, p_tracks, p_calls, p_ret>>

envVars == <<os_env, redirect_uri>>

VARIABLES
    pipe_pc,          \* the entry point's position: idle, auth_url, oracle, search,
                      \* create, reauth_url, done
    pipe_entry,       \* which entry point runs: the mood or the custom one
    pipe_text,        \* mood_text / user_prompt
    pipe_reco,        \* what analyze_mood / generate_custom_playlist_ai returned
    pipe_uris,        \* what search_ai_recommended_tracks returned
    pipe_out          \* what the entry point returned, or that it raised

pipeVars == <<pipe_pc, pipe_entry, pipe_text, pipe_reco, pipe_uris, pipe_out>>

VARIABLES
    t_pc,             \* where each thread stands in get_authenticated_client
    t_snap,           \* the pool items the thread's probe loop has still to visit
    t_tok,            \* the thread's token_info
    t_ret             \* what the thread's call returned, or that it raised

raceVars == <<t_pc, t_snap, t_tok, t_ret>>

vars == <<authVars, resVars, labelVars, pubVars, envVars, pipeVars, raceVars>>

\* ------------------------------------------------------------- values
NoTok == [id |-> 0, user |-> PyNone]
Token(n, u) == [id |-> n, user |-> u]
NoEntry == [k |-> "none", tok |-> NoTok]
CorruptEntry == [k |-> "corrupt", tok |-> NoTok]
TokEntry(t) == [k |-> "token", tok |-> t]

Call(c, n) == [c |-> c, t |-> n]
RetNone == [k |-> "none", tok |-> NoTok]
RetClient(t) == [k |-> "client", tok |-> t]
RetRaised == [k |-> "raised", tok |-> NoTok]
RetAuth(ok) == [k |-> IF ok THEN "ok" ELSE "fail", tok |-> NoTok]
RetUrl == [k |-> "url", tok |-> NoTok]


Min(S) == CHOOSE x \in S : \A y \in S : x <= y

\* ------------------------------------------------------------- collaborators
\* client.current_user() on a handle built from token t
CurrentUserOk(t, up) == up /\ t.id \notin rejected

\* mutant: the expiry check never reports an expired token
IsTokenExpiredNever(t) == FALSE

\* auth.is_token_expired(token_info)
IsTokenExpired(t) == t.id \in clock_expired

\* auth.refresh_access_token(refresh_token): succeeds when the provider is
\* reachable and can still mint a token
RefreshOk(t, up) == up /\ next_tok <= MaxTokens

\* urllib.parse.parse_qs(query): a parameter with a blank value is dropped
ParseQs(url) == [p \in DOMAIN url |-> IF url[p] = "" THEN Absent ELSE url[p]]
HasParam(q, p) == q[p] # Absent
GetParam(q, p, default) == IF HasParam(q, p) THEN q[p] ELSE default

\* ------------------------------------------------------------- the pool
PoolUsers(pool) == {pool[i].user : i \in 1..Len(pool)}
PoolIndex(pool, u) == CHOOSE i \in 1..Len(pool) : pool[i].user = u

\* mutant: a handle is added to the pool whatever it holds
PoolPutAppend(pool, u, t) == Append(pool, [user |-> u, tok |-> t])

\* self.spotify_clients[user_id] = client
PoolPut(pool, u, t) ==
    IF u \in PoolUsers(pool)
    THEN [pool EXCEPT ![PoolIndex(pool, u)] = [user |-> u, tok |-> t]]
    ELSE Append(pool, [user |-> u, tok |-> t])

ProbeCalls(pool, n) == [i \in 1..n |-> Call("current_user", pool[i].tok.id)]

\* step 1 of get_authenticated_client in backend.py: every pooled handle is
\* probed in order, a failing one is deleted, the first that answers is returned
ProbeAll(pool, up) ==
    LET alive == {i \in 1..Len(pool) : CurrentUserOk(pool[i].tok, up)}
    IN  IF alive = {}
        THEN [found |-> FALSE, client |-> NoTok, pool |-> <<>>,
              calls |-> ProbeCalls(pool, Len(pool))]
        ELSE [found |-> TRUE, client |-> pool[Min(alive)].tok,
              pool |-> SubSeq(pool, Min(alive), Len(pool)),
              calls |-> ProbeCalls(pool, Min(alive))]

\* step 1 in main.py: the loop breaks after deleting the first failing handle
ProbeFirst(pool, up) ==
    IF pool = <<>>
    THEN [found |-> FALSE, client |-> NoTok, pool |-> pool, calls |-> <<>>]
    ELSE IF CurrentUserOk(pool[1].tok, up)
    THEN [found |-> TRUE, client |-> pool[1].tok, pool |-> pool,
          calls |-> ProbeCalls(pool, 1)]
    ELSE [found |-> FALSE, client |-> NoTok, pool |-> Tail(pool),
          calls |-> ProbeCalls(pool, 1)]

ProbePool(v, pool, up) ==
    IF v = "backend" THEN ProbeAll(pool, up) ELSE ProbeFirst(pool, up)

\* ------------------------------------------------------------- get_authenticated_client
\* step 2, the body of the try block: the cached token of the session's OAuth
\* context is read, refreshed when expired, and a new handle is validated.
\* `drop`: the network goes down between the refresh and the identity call.
CachedTokenStep(sid, pool, up, drop) ==
    LET e == token_cache[sid]
        t == e.tok
        exp == IsTokenExpired(t)
        base == [out |-> "fallthrough", client |-> NoTok, pool |-> pool,
                 cache |-> token_cache, next |-> next_tok, net |-> up,
                 calls |-> <<>>]
        read == <<Call("get_cached_token", 0)>>
        pre == read \o <<Call("is_token_expired", t.id)>>
        t2 == IF exp THEN Token(next_tok, t.user) ELSE t
        up2 == IF exp /\ drop THEN FALSE ELSE up
        after == [base EXCEPT
                    !.cache = IF exp THEN [token_cache EXCEPT ![sid] = TokEntry(t2)]
                              ELSE token_cache,
                    !.next = IF exp THEN next_tok + 1 ELSE next_tok,
                    !.net = up2,
                    !.calls = pre
                        \o (IF exp THEN <<Call("refresh_access_token", t.id)>> ELSE <<>>)
                        \o <<Call("current_user", t2.id)>>]
    IN  IF sid \notin spotify_auths THEN base
        ELSE IF e.k = "corrupt" THEN [base EXCEPT !.out = "exception", !.calls = read]
        ELSE IF e.k = "none" THEN [base EXCEPT !.calls = read]
        ELSE IF exp /\ ~RefreshOk(t, up)
        THEN [base EXCEPT !.out = "exception",
                          !.calls = pre \o <<Call("refresh_access_token", t.id)>>]
        ELSE IF CurrentUserOk(t2, up2)
        THEN [after EXCEPT !.out = "return", !.client = t2,
                           !.pool = PoolPut(pool, t2.user, t2)]
        ELSE [after EXCEPT !.out = "exception"]

\* mutant: the try block of step 2 has no except clause
CatchNothing(r) == r

\* except Exception as e: logger.warning(...), then `return None`
CatchTokenErrors(r) ==
    IF r.out = "exception" THEN [r EXCEPT !.out = "fallthrough"] ELSE r

StepReturn(r) ==
    IF r.out = "return" THEN RetClient(r.client)
    ELSE IF r.out = "fallthrough" THEN RetNone
    ELSE RetRaised

AfterProbe(sid, drop, p) ==
    IF p.found
    THEN [ret |-> RetClient(p.client), pool |-> p.pool, cache |-> token_cache,
          next |-> next_tok, net |-> net_up, calls |-> p.calls]
    ELSE LET s == CHOOSE x \in {CatchTokenErrors(
                      CachedTokenStep(sid, p.pool, net_up, drop))} : TRUE
         IN  [ret |-> StepReturn(s), pool |-> s.pool, cache |-> s.cache,
              next |-> s.next, net |-> s.net, calls |-> p.calls \o s.calls]

GetAuthenticatedClient(sid, drop) ==
    AfterProbe(sid, drop, ProbePool(variant, spotify_clients, net_up))

\* the refresh of step 2 is reached and succeeds
RefreshSucceeds(sid) ==
    /\ ~ProbePool(variant, spotify_clients, net_up).found
    /\ sid \in spotify_auths
    /\ token_cache[sid].k = "token"
    /\ IsTokenExpired(token_cache[sid].tok)
    /\ RefreshOk(token_cache[sid].tok, net_up)

\* mutant: a context is built on every call, replacing the cached one
EnsureAuthAlways(auths, sid) ==
    [auths |-> auths \cup {sid}, created |-> TRUE]

\* ------------------------------------------------------------- authenticate_with_code
\* self.spotify_auths[session_id] = self.create_spotify_auth(session_id), if absent
EnsureAuth(auths, sid) ==
    [auths |-> auths \cup {sid}, created |-> sid \notin auths]

\* mutant: the display name is used as it comes, without the fallback
DisplayNameRaw(dn, u) == dn

\* display_name = user_info.get('display_name') or user_id
DisplayName(dn, u) == IF dn \in {PyNone, ""} THEN u ELSE dn

\* mutant: the missing code is not detected
CodeMissingNever(q) == FALSE

\* if 'code' not in query_params
CodeMissing(q) == ~HasParam(q, "code")

NoMe == [id |-> PyNone, display_name |-> PyNone]

\* url: the callback URL's query parameters; exch: what get_access_token does;
\* u, dn: the user who authorized and the display name the identity call
\* reports; drop: the network goes down between the exchange and that call
AuthenticateWithCode(url, sid, exch, u, dn, drop) ==
    LET q == ParseQs(url)
        base == [ok |-> FALSE, msg |-> <<>>, pool |-> spotify_clients,
                 auths |-> spotify_auths, created |-> FALSE,
                 cache |-> token_cache, next |-> next_tok, net |-> net_up,
                 calls |-> <<>>, exch |-> "-", me |-> NoMe]
        ctx == EnsureAuth(spotify_auths, sid)
        called == [base EXCEPT !.auths = ctx.auths, !.created = ctx.created,
                               !.exch = exch,
                               !.calls = <<Call("get_access_token", 0)>>]
        t == Token(next_tok, u)
        up2 == net_up /\ ~drop
        got == [called EXCEPT !.cache = [token_cache EXCEPT ![sid] = TokEntry(t)],
                              !.next = next_tok + 1, !.net = up2,
                              !.calls = @ \o <<Call("current_user", t.id)>>]
    IN  IF CodeMissing(q)
        THEN IF HasParam(q, "error")
             THEN [base EXCEPT !.msg = <<"Authentication failed: ", q["error"], " - ",
                                          GetParam(q, "error_description", "")>>]
             ELSE [base EXCEPT !.msg = <<"No authorization code found in callback URL">>]
        ELSE IF exch = "raise"
        THEN [called EXCEPT !.msg = <<"Authentication error: ", "get_access_token">>]
        ELSE IF exch = "none"
        THEN [called EXCEPT !.msg = <<"Failed to exchange code for access token">>]
        ELSE IF CurrentUserOk(t, up2)
        THEN [got EXCEPT !.ok = TRUE,
                         !.me = [id |-> u, display_name |-> dn],
                         !.msg = <<"Successfully authenticated as ", DisplayName(dn, u)>>,
                         !.pool = PoolPut(spotify_clients, u, t)]
        ELSE [got EXCEPT !.msg = <<"Authentication error: ", "current_user">>]

\* the callback URLs tried: a parameter is absent, blank or has a value
Url(c, e, d) == [code |-> c, error |-> e, error_description |-> d]
CallbackUrls ==
    {Url(Absent, Absent, Absent), Url("c", Absent, Absent),
     Url(Absent, "e", Absent), Url(Absent, "e", "d"), Url("c", "e", "d"),
     Url("", "e", "d"), Url(Absent, "", Absent)}
NoUrl == [code |-> Absent, error |-> Absent, error_description |-> Absent]

\* ------------------------------------------------------------- actions
\* The status of a token that neither the pool nor the cache holds can no
\* longer be observed (a new token gets a new id): it is dropped from the
\* environment's sets.
Held(pool, cache) ==
    {pool[i].tok.id : i \in 1..Len(pool)}
        \cup {cache[s].tok.id : s \in {x \in Sessions : cache[x].k = "token"}}

Commit(pool, auths, cache, next, net, exp, rej) ==
    /\ spotify_clients' = pool
    /\ spotify_auths' = auths
    /\ token_cache' = cache
    /\ next_tok' = next
    /\ net_up' = net
    /\ clock_expired' = exp \cap Held(pool, cache)
    /\ rejected' = rej \cap Held(pool, cache)
    /\ UNCHANGED variant

Record(op, sid, ret, msg, calls, url, created) ==
    last' = [op |-> op, sid |-> sid, ret |-> ret, msg |-> msg, calls |-> calls,
             url |-> url, created |-> created, exch |-> "-", me |-> NoMe]

RetBool(r) ==
    [k |-> IF r.k = "none" THEN "false" ELSE IF r.k = "client" THEN "true" ELSE "raised",
     tok |-> NoTok]

DoGetAuthenticatedClient(sid) ==
    \E drop \in BOOLEAN :
        /\ drop => RefreshSucceeds(sid)
        /\ \E r \in {GetAuthenticatedClient(sid, drop)} :
               /\ Commit(r.pool, spotify_auths, r.cache, r.next, r.net,
                         clock_expired, rejected)
               /\ Record("get_authenticated_client", sid, r.ret, <<>>, r.calls,
                         NoUrl, FALSE)

\* is_authenticated: get_authenticated_client(session_id) is not None
DoIsAuthenticated(sid) ==
    \E drop \in BOOLEAN :
        /\ drop => RefreshSucceeds(sid)
        /\ \E r \in {GetAuthenticatedClient(sid, drop)} :
               /\ Commit(r.pool, spotify_auths, r.cache, r.next, r.net,
                         clock_expired, rejected)
               /\ Record("is_authenticated", sid, RetBool(r.ret), <<>>, r.calls,
                         NoUrl, FALSE)

DoAuthenticateWithCode(sid) ==
    \E url \in CallbackUrls, exch \in {"raise", "none", "token"}, u \in Users,
       dn \in DisplayNames, drop \in BOOLEAN :
        /\ exch = "token" => net_up /\ next_tok <= MaxTokens
        \* inputs that the call does not read are held at one value
        /\ url.code \in {Absent, ""} => exch = "raise"
        /\ exch # "token" => u = "u1" /\ dn = PyNone /\ ~drop
        /\ drop => dn = PyNone
        /\ \E r \in {AuthenticateWithCode(url, sid, exch, u, dn, drop)} :
               /\ Commit(r.pool, r.auths, r.cache, r.next, r.net,
                         clock_expired, rejected)
               /\ last' = [op |-> "authenticate_with_code", sid |-> sid,
                           ret |-> RetAuth(r.ok), msg |-> r.msg, calls |-> r.calls,
                           url |-> url, created |-> r.created, exch |-> r.exch,
                           me |-> r.me]

\* get_auth_url: the session's OAuth context is created if absent
DoGetAuthUrl(sid) ==
    LET ctx == EnsureAuth(spotify_auths, sid)
    IN  /\ Commit(spotify_clients, ctx.auths, token_cache, next_tok, net_up,
                  clock_expired, rejected)
        /\ Record("get_auth_url", sid, RetUrl, <<>>, <<>>, NoUrl, ctx.created)

\* ------------------------------------------------------------- environment
EnvStep == Record("env", "", RetNone, <<>>, <<>>, NoUrl, FALSE)

NetChange ==
    /\ Commit(spotify_clients, spotify_auths, token_cache, next_tok, ~net_up,
              clock_expired, rejected)
    /\ EnvStep

\* time passes: the cached token of a session is within the expiry margin
ClockExpire(sid) ==
    /\ token_cache[sid].k = "token"
    /\ token_cache[sid].tok.id \notin clock_expired
    /\ Commit(spotify_clients, spotify_auths, token_cache, next_tok, net_up,
              clock_expired \cup {token_cache[sid].tok.id}, rejected)
    /\ EnvStep

\* the provider stops accepting an access token (expiry, withdrawn grant)
Reject(n) ==
    /\ n \in Held(spotify_clients, token_cache) /\ n \notin rejected
    /\ Commit(spotify_clients, spotify_auths, token_cache, next_tok, net_up,
              clock_expired, rejected \cup {n})
    /\ EnvStep

\* the cache file of a session is damaged
CorruptCache(sid) ==
    /\ token_cache[sid].k = "token"
    /\ Commit(spotify_clients, spotify_auths,
              [token_cache EXCEPT ![sid] = CorruptEntry], next_tok, net_up,
              clock_expired, rejected)
    /\ EnvStep

\* the process is started again: __init__ empties both maps, the cache
\* directory stays
Restart ==
    /\ Commit(<<>>, {}, token_cache, next_tok, net_up, clock_expired, rejected)
    /\ EnvStep

\* ------------------------------------------------------------- the track resolver
\* strings are sequences of characters; a candidate that is no string is NotStr
NotStr == <<PyNone>>
IsStr(s) == s # NotStr

\* ' - ' in song_recommendation
SepAt(s) == {i \in 1..(Len(s) - 2) : s[i] = " " /\ s[i + 1] = "-" /\ s[i + 2] = " "}

\* str.strip()
Strip(s) ==
    LET ink == {i \in 1..Len(s) : s[i] # " "}
    IN  IF ink = {} THEN <<>>
        ELSE SubSeq(s, Min(ink), CHOOSE b \in ink : \A j \in ink : j <= b)

\* mutant: the label is split at its last separator
ParseLabelLast(s) ==
    IF SepAt(s) # {}
    THEN [artist |-> Strip(SubSeq(s, 1, (CHOOSE b \in SepAt(s) : \A j \in SepAt(s) : j <= b) - 1)),
          title |-> Strip(SubSeq(s, (CHOOSE b \in SepAt(s) : \A j \in SepAt(s) : j <= b) + 3, Len(s)))]
    ELSE [artist |-> <<>>, title |-> Strip(s)]

\* artist, title = song_recommendation.split(' - ', 1), both stripped; without
\* the separator the artist is "" and the title the stripped label
ParseLabel(s) ==
    IF SepAt(s) # {}
    THEN [artist |-> Strip(SubSeq(s, 1, Min(SepAt(s)) - 1)),
          title |-> Strip(SubSeq(s, Min(SepAt(s)) + 3, Len(s)))]
    ELSE [artist |-> <<>>, title |-> Strip(s)]

\* search_queries, most specific first
SearchQueries(artist, title) ==
    IF artist # <<>> /\ title # <<>>
    THEN << <<"artist:\"">> \o artist \o <<"\" track:\"">> \o title \o <<"\"">>,
            <<"\"">> \o artist \o <<"\" \"">> \o title \o <<"\"">>,
            artist \o <<" ">> \o title,
            <<"track:\"">> \o title \o <<"\"">> >>
    ELSE << <<"\"">> \o title \o <<"\"">>, title >>

MinPopEnglish == 60
MinPopLatin == 45
MinPopAsian == 40
ArtistSlack == 20

\* language_config
LanguageConfig ==
    [English |-> [markets |-> <<"US", "GB", "CA", "AU">>, min_popularity |-> MinPopEnglish],
     Spanish |-> [markets |-> <<"ES", "MX", "AR", "CO">>, min_popularity |-> MinPopLatin],
     Turkish |-> [markets |-> <<"TR">>, min_popularity |-> MinPopLatin],
     French |-> [markets |-> <<"FR", "CA", "BE">>, min_popularity |-> MinPopLatin],
     German |-> [markets |-> <<"DE", "AT", "CH">>, min_popularity |-> MinPopLatin],
     Italian |-> [markets |-> <<"IT">>, min_popularity |-> MinPopLatin],
     Portuguese |-> [markets |-> <<"BR", "PT">>, min_popularity |-> MinPopLatin],
     Japanese |-> [markets |-> <<"JP">>, min_popularity |-> MinPopAsian],
     Korean |-> [markets |-> <<"KR">>, min_popularity |-> MinPopAsian]]

\* mutant: an unknown language gets the first row of the table that is no
\* English row
ConfigFirstRow(language) ==
    IF language \in DOMAIN LanguageConfig THEN LanguageConfig[language]
    ELSE LanguageConfig["Spanish"]

\* config = language_config.get(language, language_config['English']), the
\* language being search_data.get('language_preference', 'English')
Config(language) ==
    IF language \in DOMAIN LanguageConfig THEN LanguageConfig[language]
    ELSE LanguageConfig["English"]

\* a popularity field that is absent
NoPop == -1
\* track.get('popularity', 0), artist_info.get('popularity', 0)
Popularity(p) == IF p = NoPop THEN 0 ELSE p

\* a track record of a search result: uri (PyNone: no 'uri' key), popularity,
\* number of listed artists, and whether the name fields the log line reads
\* are there
Track(uri, pop, nart, named) ==
    [uri |-> uri, popularity |-> pop, artists |-> nart, named |-> named]

Elems(seq) == {seq[i] : i \in 1..Len(seq)}

\* mutant: the artist must be as popular as the track
ArtistPassesStrict(apop, min_popularity) == Popularity(apop) >= min_popularity

\* artist_info.get('popularity', 0) >= (min_popularity - 20)
ArtistPasses(apop, min_popularity) == Popularity(apop) >= min_popularity - ArtistSlack

\* mutant: the popularity gate is left out
GatesNoPopularity(track, uris, min_popularity) ==
    /\ track.uri \notin Elems(uris)
    /\ track.artists > 0

\* track['uri'] not in track_uris and track.get('popularity', 0) >= min_popularity
\* and len(track['artists']) > 0
Gates(track, uris, min_popularity) ==
    /\ track.uri \notin Elems(uris)
    /\ Popularity(track.popularity) >= min_popularity
    /\ track.artists > 0

\* mutant: a failed artist lookup rejects the track
InspectTrackLookupGates(track, uris, min_popularity, aok, apop) ==
    IF track.uri = PyNone
    THEN [uris |-> uris, found |-> FALSE, flow |-> "except", looked |-> FALSE]
    ELSE IF ~Gates(track, uris, min_popularity)
    THEN [uris |-> uris, found |-> FALSE, flow |-> "next", looked |-> FALSE]
    ELSE IF aok /\ ArtistPasses(apop, min_popularity)
    THEN [uris |-> Append(uris, track.uri), found |-> TRUE, flow |-> "break",
          looked |-> TRUE]
    ELSE [uris |-> uris, found |-> FALSE, flow |-> "next", looked |-> TRUE]

\* mutant: a track that passes the gates is accepted without the artist check
InspectTrackUnchecked(track, uris, min_popularity, aok, apop) ==
    IF track.uri = PyNone
    THEN [uris |-> uris, found |-> FALSE, flow |-> "except", looked |-> FALSE]
    ELSE IF ~Gates(track, uris, min_popularity)
    THEN [uris |-> uris, found |-> FALSE, flow |-> "next", looked |-> FALSE]
    ELSE [uris |-> Append(uris, track.uri), found |-> TRUE, flow |-> "break",
          looked |-> FALSE]

\* one pass of `for track in results['tracks']['items']` over `track`.
\* aok, apop: client.artist(...) answers, and the popularity it reports.
\* flow: "next" (go on with the next track), "break" (leave the track loop),
\* "except" (an exception reaches the except clause of the search's try).
\* The log line after an append reads track['name'] and the artist's name:
\* without them it raises KeyError; inside the artist check's try that is
\* caught by the bare except, which appends again and logs again.
InspectTrack(track, uris, min_popularity, aok, apop) ==
    IF track.uri = PyNone
    THEN [uris |-> uris, found |-> FALSE, flow |-> "except", looked |-> FALSE]
    ELSE IF ~Gates(track, uris, min_popularity)
    THEN [uris |-> uris, found |-> FALSE, flow |-> "next", looked |-> FALSE]
    ELSE IF ~aok
    THEN [uris |-> Append(uris, track.uri), found |-> TRUE,
          flow |-> IF track.named THEN "break" ELSE "except", looked |-> TRUE]
    ELSE IF ArtistPasses(apop, min_popularity)
    THEN IF track.named
         THEN [uris |-> Append(uris, track.uri), found |-> TRUE, flow |-> "break",
               looked |-> TRUE]
         ELSE [uris |-> Append(Append(uris, track.uri), track.uri), found |-> TRUE,
               flow |-> "except", looked |-> TRUE]
    ELSE [uris |-> uris, found |-> FALSE, flow |-> "next", looked |-> TRUE]

\* ------------------------------------------------------------- resolver inputs
LabelAB == <<"A", " ", "-", " ", "B">>
LabelABC == <<"A", " ", "-", " ", "B", " ", "-", " ", "C">>
LabelTitle == <<"T">>
LabelNoTitle == <<"A", " ", "-", " ">>
LabelNoArtist == <<" ", "-", " ", "B">>

SongLists ==
    {<<>>, <<LabelAB>>, <<LabelTitle, LabelAB>>, <<LabelABC, LabelNoTitle>>,
     <<LabelAB, NotStr>>, <<LabelNoArtist, LabelAB, LabelTitle>>}

Languages == {"English", "Turkish", "Klingon", PyNone}

ResultLists ==
    {<<>>,
     <<Track("x", 70, 1, TRUE)>>,
     <<Track("x", 70, 1, TRUE), Track("y", 55, 1, TRUE)>>,
     <<Track("x", 55, 1, TRUE), Track("y", 70, 1, TRUE)>>,
     <<Track("y", 70, 1, FALSE)>>,
     <<Track("x", 70, 0, TRUE), Track("y", 70, 1, TRUE)>>,
     <<Track("x", NoPop, 1, TRUE)>>,
     <<Track(PyNone, 70, 1, TRUE), Track("x", 70, 1, TRUE)>>}

ArtistPops == {NoPop, 30, 60}

NoRet == <<"<running>">>

\* no artist lookup was made for the track
NoLookup == [called |-> FALSE, ok |-> FALSE, popularity |-> NoPop]
\* artist_info = client.artist(track['artists'][0]['id']), or the call raised
Lookup(aok, apop) == [called |-> TRUE, ok |-> aok, popularity |-> apop]

\* ------------------------------------------------------------- label and profile
Alphabet == {"A", " ", "-"}
Labels ==
    UNION {[1..n -> Alphabet] : n \in 0..MaxLabelLen}
        \cup {LabelAB, LabelABC, LabelTitle, LabelNoTitle, LabelNoArtist}

\* the keys of language_config, a differently spelled key, an unknown language
\* and no language_preference key at all
LanguageInputs == DOMAIN LanguageConfig \cup {"english", "Klingon", "", PyNone}

NoConfig == [markets |-> <<>>, min_popularity |-> 0]

LabelIdle ==
    /\ l_song = <<>>
    /\ l_language = PyNone
    /\ l_artist = NotStr
    /\ l_title = NotStr
    /\ l_config = NoConfig

LabelInit ==
    /\ l_song \in Labels
    /\ l_language \in LanguageInputs
    /\ l_artist = NotStr
    /\ l_title = NotStr
    /\ l_config = NoConfig

\* config = language_config.get(language, language_config['English'])
ConfigStep ==
    /\ l_config = NoConfig
    /\ l_config' = Config(l_language)
    /\ UNCHANGED <<l_song, l_language, l_artist, l_title>>

\* if ' - ' in song_recommendation: artist, title = ... else: ...
ParseStep ==
    /\ l_artist = NotStr
    /\ l_artist' = ParseLabel(l_song).artist
    /\ l_title' = ParseLabel(l_song).title
    /\ UNCHANGED <<l_song, l_language, l_config>>

AuthFrame == UNCHANGED <<resVars, labelVars, pubVars, envVars, pipeVars, raceVars>>
ResolveFrame == UNCHANGED <<labelVars, pubVars, envVars, pipeVars, raceVars>>
LabelFrame == UNCHANGED <<authVars, resVars, pubVars, envVars, pipeVars, raceVars>>
PublishFrame == UNCHANGED <<resVars, labelVars, envVars, pipeVars, raceVars>>
RedirectFrame == UNCHANGED <<resVars, labelVars, pubVars, pipeVars, raceVars>>
PipelineFrame == UNCHANGED <<resVars, labelVars, envVars, raceVars>>
RaceFrame == UNCHANGED <<resVars, labelVars, pubVars, envVars, pipeVars>>

\* ------------------------------------------------------------- the redirect URI
\* a setting is a string, kept as a sequence of pieces; NoEnv: os.getenv gives None
NoEnv == <<Absent>>
EnvUrls == {NoEnv, <<>>, <<"http://", "h">>, <<"https://", "h">>, <<"https://", "h", "/">>}
EnvNames == {NoEnv, <<>>, <<"n">>}

\* if value: (neither None nor "")
Truthy(value) == value # NoEnv /\ value # <<>>

\* if not repl_url.startswith('https://'): repl_url.replace('http://', 'https://')
Https(url) == IF url[1] = "http://" THEN <<"https://">> \o Tail(url) ELSE url

\* clean_credential, for a setting of plain characters: the last character is
\* dropped when it is neither a word character nor a hyphen
CleanCredential(credential) ==
    IF credential # <<>> /\ credential[Len(credential)] \in {"/", "."}
    THEN SubSeq(credential, 1, Len(credential) - 1)
    ELSE credential

\* get_redirect_uri of backend.py: the setting, the tunnel URL, the dev
\* domain, then the local address
GetRedirectUriBackend(env) ==
    IF Truthy(env.SPOTIFY_REDIRECT_URI) THEN CleanCredential(env.SPOTIFY_REDIRECT_URI)
    ELSE IF Truthy(env.REPL_URL) THEN Https(env.REPL_URL) \o <<"/api/spotify-callback">>
    ELSE IF Truthy(env.REPLIT_DEV_DOMAIN)
    THEN <<"https://">> \o env.REPLIT_DEV_DOMAIN \o <<"/api/spotify-callback">>
    ELSE <<"http://127.0.0.1:5000/api/spotify-callback">>

\* get_redirect_uri of main.py: the setting, the dev domain, the tunnel URL,
\* the slug and owner, then the local address
GetRedirectUriMain(env) ==
    IF Truthy(env.SPOTIFY_REDIRECT_URI) THEN env.SPOTIFY_REDIRECT_URI
    ELSE IF Truthy(env.REPLIT_DEV_DOMAIN)
    THEN <<"https://">> \o env.REPLIT_DEV_DOMAIN \o <<"/spotify-callback">>
    ELSE IF Truthy(env.REPL_URL) THEN Https(env.REPL_URL) \o <<"/spotify-callback">>
    ELSE IF Truthy(env.REPL_SLUG) /\ Truthy(env.REPL_OWNER)
    THEN <<"https://">> \o env.REPL_SLUG \o <<".">> \o env.REPL_OWNER
             \o <<".repl.co/spotify-callback">>
    ELSE <<"http://127.0.0.1:8080/spotify-callback">>

GetRedirectUri(v, env) ==
    IF v = "backend" THEN GetRedirectUriBackend(env) ELSE GetRedirectUriMain(env)

NoSettings ==
    [SPOTIFY_REDIRECT_URI |-> NoEnv, REPL_URL |-> NoEnv, REPLIT_DEV_DOMAIN |-> NoEnv,
     REPL_SLUG |-> NoEnv, REPL_OWNER |-> NoEnv]

\* self.redirect_uri = None
RedirectIdle ==
    /\ os_env = NoSettings
    /\ redirect_uri = NoEnv

\* self.redirect_uri = self.get_redirect_uri(), in setup_apis
SetupApis ==
    /\ redirect_uri = NoEnv
    /\ redirect_uri' = GetRedirectUri(variant, os_env)
    /\ UNCHANGED <<os_env, authVars>>

\* get_auth_url once the process is set up
GetAuthUrlAfterSetup(sid) ==
    /\ redirect_uri # NoEnv
    /\ DoGetAuthUrl(sid)
    /\ UNCHANGED envVars

\* ------------------------------------------------------------- resolver steps
ResolverIdle ==
    /\ r_pc = "idle"
    /\ search_data = [has_songs |-> FALSE, recommended_songs |-> <<>>,
                      language_preference |-> PyNone]
    /\ target_count = 0
    /\ r_cand = 0 /\ r_market = 0 /\ r_query = 0
    /\ r_results = <<>> /\ r_track = 0
    /\ track_uris = <<>>
    /\ found_track = FALSE
    /\ r_ret = NoRet
    /\ catalog_called = FALSE
    /\ artist_info = NoLookup
    /\ r_search = "-"

\* mutant: a recommendation without the key resolves a stock candidate
GetSongsStock(sd) == IF sd.has_songs THEN sd.recommended_songs ELSE <<LabelAB>>

\* recommended_songs = search_data.get('recommended_songs', [])
GetSongs(sd) == IF sd.has_songs THEN sd.recommended_songs ELSE <<>>

\* mutant: the handle is not tested
NoClientNever(ret) == FALSE

\* if not client
NoClient(ret) == ret.k # "client"

Markets == Config(search_data.language_preference).markets
MinPopularity == Config(search_data.language_preference).min_popularity
Song == GetSongs(search_data)[r_cand]
Queries == SearchQueries(ParseLabel(Song).artist, ParseLabel(Song).title)

\* client = self.get_authenticated_client(); if not client: return []
ResolveStart ==
    /\ r_pc = "idle"
    /\ \E songs \in SongLists, has \in BOOLEAN, lang \in Languages,
          target \in 0..MaxTarget :
          /\ ~has => songs = <<>>
          /\ search_data' = [has_songs |-> has, recommended_songs |-> songs,
                             language_preference |-> lang]
          /\ target_count' = target
    /\ DoGetAuthenticatedClient("default")
    /\ IF NoClient(last'.ret)
       THEN r_pc' = "done" /\ r_cand' = 0 /\ r_ret' = <<>>
       ELSE r_pc' = "head" /\ r_cand' = 1 /\ r_ret' = NoRet
    /\ UNCHANGED <<r_market, r_query, r_results, r_track, track_uris, found_track,
                   catalog_called, artist_info, r_search>>

\* for song_recommendation in recommended_songs: the loop head, the parse and
\* the query list; a candidate that is no string raises TypeError, which the
\* outer except turns into `return []`
LoopHead ==
    /\ r_pc = "head"
    /\ IF r_cand > Len(GetSongs(search_data))
          \/ Len(track_uris) >= target_count
       THEN /\ r_pc' = "done" /\ r_ret' = track_uris
            /\ UNCHANGED <<r_market, r_query, found_track>>
       ELSE IF ~IsStr(Song)
       THEN /\ r_pc' = "done" /\ r_ret' = <<>>
            /\ UNCHANGED <<r_market, r_query, found_track>>
       ELSE /\ r_pc' = "search" /\ r_ret' = r_ret
            /\ r_market' = 1 /\ r_query' = 1 /\ found_track' = FALSE
    /\ r_results' = <<>> /\ r_track' = 0 /\ artist_info' = NoLookup
    /\ r_search' = "-"
    /\ UNCHANGED <<search_data, target_count, r_cand, track_uris, catalog_called>>
    /\ UNCHANGED authVars

\* mutant: the query loop is the outer one
AdvanceQueryMajor(found) ==
    IF found \/ (r_query = Len(Queries) /\ r_market = Len(Markets))
    THEN /\ r_pc' = "head" /\ r_cand' = r_cand + 1
         /\ UNCHANGED <<r_market, r_query>>
    ELSE /\ r_pc' = "search" /\ r_cand' = r_cand
         /\ IF r_market = Len(Markets)
            THEN r_query' = r_query + 1 /\ r_market' = 1
            ELSE r_query' = r_query /\ r_market' = r_market + 1

\* mutant: the loops go on after an acceptance
AdvanceNoBreak(found) ==
    IF r_query = Len(Queries) /\ r_market = Len(Markets)
    THEN /\ r_pc' = "head" /\ r_cand' = r_cand + 1
         /\ UNCHANGED <<r_market, r_query>>
    ELSE /\ r_pc' = "search" /\ r_cand' = r_cand
         /\ IF r_query = Len(Queries)
            THEN r_market' = r_market + 1 /\ r_query' = 1
            ELSE r_market' = r_market /\ r_query' = r_query + 1

\* mutant: a query that found nothing is issued again
AdvanceRetry(found) ==
    IF found
    THEN /\ r_pc' = "head" /\ r_cand' = r_cand + 1
         /\ UNCHANGED <<r_market, r_query>>
    ELSE /\ r_pc' = "search" /\ r_cand' = r_cand
         /\ UNCHANGED <<r_market, r_query>>

\* where the loops stand after one pass of the query loop's body: both loops
\* break once found_track is set, else the next query, then the next market
Advance(found) ==
    IF found \/ (r_query = Len(Queries) /\ r_market = Len(Markets))
    THEN /\ r_pc' = "head" /\ r_cand' = r_cand + 1
         /\ UNCHANGED <<r_market, r_query>>
    ELSE /\ r_pc' = "search" /\ r_cand' = r_cand
         /\ IF r_query = Len(Queries)
            THEN r_market' = r_market + 1 /\ r_query' = 1
            ELSE r_market' = r_market /\ r_query' = r_query + 1

\* mutant: a failed search ends the resolution
AfterFailedSearchAbort ==
    /\ r_pc' = "done"
    /\ UNCHANGED <<r_cand, r_market, r_query>>

\* except Exception as e: logger.warning(...); continue
AfterFailedSearch == Advance(FALSE)

\* results = client.search(q=query, type='track', limit=10, market=market):
\* it raises, or answers without the tracks, or answers a list of tracks
SearchCall ==
    /\ r_pc = "search"
    /\ catalog_called' = TRUE
    /\ \E outcome \in {"raise", "malformed", "items"} :
          /\ r_search' = outcome
          /\ IF outcome = "items"
             THEN \E items \in ResultLists :
                     /\ r_results' = items
                     /\ IF items = <<>>
                        THEN Advance(FALSE) /\ r_track' = 0
                        ELSE /\ r_pc' = "inspect" /\ r_track' = 1
                             /\ UNCHANGED <<r_cand, r_market, r_query>>
             ELSE AfterFailedSearch /\ r_results' = <<>> /\ r_track' = 0
    /\ artist_info' = NoLookup
    /\ UNCHANGED <<search_data, target_count, track_uris, found_track, r_ret>>
    /\ UNCHANGED authVars

\* the body of the track loop for results[r_track]
InspectStep ==
    /\ r_pc = "inspect"
    /\ \E aok \in BOOLEAN, apop \in ArtistPops :
          /\ ~aok => apop = NoPop
          /\ \E r \in {InspectTrack(r_results[r_track], track_uris, MinPopularity,
                                    aok, apop)} :
                /\ r.looked \/ (aok /\ apop = NoPop)
                /\ track_uris' = r.uris
                /\ found_track' = r.found
                /\ artist_info' = IF r.looked THEN Lookup(aok, apop) ELSE NoLookup
                /\ IF r.flow = "next" /\ r_track < Len(r_results)
                   THEN /\ r_track' = r_track + 1
                        /\ UNCHANGED <<r_pc, r_cand, r_market, r_query, r_results>>
                   ELSE Advance(r.found) /\ UNCHANGED <<r_track, r_results>>
    /\ UNCHANGED <<search_data, target_count, r_ret, catalog_called, r_search>>
    /\ UNCHANGED authVars

\* ------------------------------------------------------------- create_playlist
\* track identifiers are numbered; the lists given to create_playlist
Ids(n) == [i \in 1..n |-> i]
Rev(n) == [i \in 1..n |-> n + 1 - i]
TrackLists == {Ids(n) : n \in 0..MaxTracks} \cup {Rev(n) : n \in 2..MaxTracks}

\* the provider calls of create_playlist, in the order the code makes them
PublishCalls == <<"current_user", "user_playlist_create", "playlist_add_items", "tracks">>

PCall(c, user, items) == [c |-> c, user |-> user, items |-> items]

\* seq[:n]
Take(seq, n) == SubSeq(seq, 1, IF Len(seq) < n THEN Len(seq) ELSE n)

SampleLimit == 5

\* f"{track['name']} by {artist_names}" for the track the provider holds
\* under identifier t
SampleString(t) == <<"name", t, " by ", "artists", t>>

NoSamples == <<>>
PRet(k, count, samples) == [k |-> k, track_count |-> count, sample_tracks |-> samples]
\* mutant: a missing handle is reported like any other failure
AuthNeededAsFailure == PRet("failed", 0, NoSamples)

\* {"error": "Authentication required", "auth_needed": True}
AuthNeeded == PRet("auth_needed", 0, NoSamples)
\* {"error": "No tracks found matching your preferences"}
NoTracksFound == PRet("no_tracks", 0, NoSamples)
\* {"error": f"Failed to create playlist: {str(e)}"}
CreateFailed == PRet("failed", 0, NoSamples)
NotCalled == PRet("-", 0, NoSamples)

\* mutant: the whole track list is sampled
SampleAll(uris) == uris

\* track_uris[:5]
SampleIds(uris) == Take(uris, SampleLimit)

\* mutant: the track list is tested before the playlist is created
EmptyCheckFirst(uris) == uris = <<>>

\* the code tests `not track_uris` only after user_playlist_create
EmptyCheckBeforeCreate(uris) == FALSE

\* create_playlist(playlist_data, track_uris) on the handle of `user`, or on
\* none (client = FALSE); fail_at names the provider call that raises, "none"
\* when all answer.  pls: the provider's playlists.
CreatePlaylist(client, user, uris, fail_at, pls) ==
    LET c1 == <<PCall("current_user", user, <<>>)>>
        c2 == Append(c1, PCall("user_playlist_create", user, <<>>))
        c3 == Append(c2, PCall("playlist_add_items", user, uris))
        c4 == Append(c3, PCall("tracks", user, SampleIds(uris)))
        created == Append(pls, [owner |-> user, public |-> FALSE, items |-> <<>>])
        filled == Append(pls, [owner |-> user, public |-> FALSE, items |-> uris])
    IN  IF ~client
        THEN [ret |-> AuthNeeded, calls |-> <<>>, playlists |-> pls]
        ELSE IF fail_at = "current_user"
        THEN [ret |-> CreateFailed, calls |-> c1, playlists |-> pls]
        ELSE IF EmptyCheckBeforeCreate(uris)
        THEN [ret |-> NoTracksFound, calls |-> c1, playlists |-> pls]
        ELSE IF fail_at = "user_playlist_create"
        THEN [ret |-> CreateFailed, calls |-> c2, playlists |-> pls]
        ELSE IF uris = <<>>
        THEN [ret |-> NoTracksFound, calls |-> c2, playlists |-> created]
        ELSE IF fail_at = "playlist_add_items"
        THEN [ret |-> CreateFailed, calls |-> c3, playlists |-> created]
        ELSE IF fail_at = "tracks"
        THEN [ret |-> CreateFailed, calls |-> c4, playlists |-> filled]
        ELSE [ret |-> PRet("success", Len(uris),
                           [i \in 1..Len(SampleIds(uris)) |->
                               SampleString(SampleIds(uris)[i])]),
              calls |-> c4, playlists |-> filled]

PublishIdle ==
    /\ playlists = <<>>
    /\ p_tracks = <<>>
    /\ p_calls = <<>>
    /\ p_ret = NotCalled

\* client = self.get_authenticated_client() and the rest of create_playlist,
\* called with the track list uris
DoCreatePlaylistOf(uris) ==
    /\ DoGetAuthenticatedClient("default")
    /\ \E fail_at \in {"none"} \cup Elems(PublishCalls) :
          \E r \in {CreatePlaylist(~NoClient(last'.ret), last'.ret.tok.user,
                                   uris, fail_at, playlists)} :
             \* a call that is not reached cannot be the one that raises
             /\ fail_at # "none" => r.ret = CreateFailed
             /\ playlists' = r.playlists
             /\ p_tracks' = uris
             /\ p_calls' = r.calls
             /\ p_ret' = r.ret

\* create_playlist with any track list
DoCreatePlaylist ==
    /\ Len(playlists) < MaxPlaylists
    /\ \E uris \in TrackLists : DoCreatePlaylistOf(uris)

\* ------------------------------------------------------------- oracle
\* The keys of a recommendation document; a document is held by the keys it
\* has and by what the entry points ask of its values: whether emotion is a
\* string, whether genres and themes are lists of strings, whether
\* recommended_songs has a length, and the candidates themselves.
OracleKeys ==
    {"emotion", "themes", "genres", "energy_level", "mood_description",
     "recommended_songs", "playlist_name", "description", "language_preference"}

\* required_keys of analyze_mood
RequiredMood ==
    {"emotion", "themes", "genres", "energy_level", "mood_description",
     "recommended_songs"}

\* required_keys of generate_custom_playlist_ai
RequiredCustom == {"playlist_name", "description", "genres", "recommended_songs"}

Doc(keys, emotion_str, genres_strs, themes_strs, sized, songs) ==
    [keys |-> keys, error |-> "", emotion_str |-> emotion_str,
     genres_strs |-> genres_strs, themes_strs |-> themes_strs,
     songs_sized |-> sized, recommended_songs |-> songs]

\* {"error": msg}
OracleError(msg) ==
    [keys |-> {"error"}, error |-> msg, emotion_str |-> FALSE,
     genres_strs |-> FALSE, themes_strs |-> FALSE, songs_sized |-> FALSE,
     recommended_songs |-> <<>>]

NoDoc == Doc({}, FALSE, FALSE, FALSE, FALSE, <<>>)

\* what the language model may answer: the documents the prompt asks for, and
\* documents that lack a key, carry an empty list, or carry null where a
\* string or a list is asked for
Docs ==
    {Doc(OracleKeys, TRUE, TRUE, TRUE, TRUE, <<LabelAB>>),
     Doc(OracleKeys \ {"recommended_songs"}, TRUE, TRUE, TRUE, TRUE, <<>>),
     Doc(OracleKeys \ {"emotion"}, FALSE, TRUE, TRUE, TRUE, <<LabelAB>>),
     Doc(OracleKeys, TRUE, TRUE, TRUE, TRUE, <<>>),
     Doc(OracleKeys, TRUE, TRUE, TRUE, FALSE, <<>>),
     Doc(OracleKeys, FALSE, TRUE, TRUE, TRUE, <<LabelAB>>),
     Doc(OracleKeys, TRUE, FALSE, TRUE, TRUE, <<LabelAB>>),
     Doc(OracleKeys, TRUE, TRUE, FALSE, TRUE, <<LabelAB>>)}

\* the outcome of self.groq_client.chat.completions.create and of json.loads:
\* the call raises, the content holds no JSON document, or it holds one
Reply(kind, doc) == [kind |-> kind, doc |-> doc]
Replies ==
    {Reply("raise", NoDoc), Reply("text", NoDoc)}
        \cup {Reply("json", d) : d \in Docs}

\* not text or len(text.strip()) < n
TooShort(text, n) == text = <<>> \/ Len(Strip(text)) < n

\* analyze_mood(text, language)
AnalyzeMood(text, reply) ==
    IF TooShort(text, 3) THEN OracleError("Please describe your mood in a few words")
    ELSE IF reply.kind = "raise"
    THEN OracleError("Mood analysis temporarily unavailable. Please try again.")
    ELSE IF reply.kind = "text"
    THEN OracleError("Couldn't analyze your mood. Try describing it differently.")
    ELSE IF ~(RequiredMood \subseteq reply.doc.keys)
    THEN OracleError("Mood analysis temporarily unavailable. Please try again.")
    ELSE reply.doc

\* generate_custom_playlist_ai(user_prompt, num_songs, language)
GenerateCustomPlaylistAi(text, reply) ==
    IF TooShort(text, 5)
    THEN OracleError("Please provide a more detailed description of your playlist")
    ELSE IF reply.kind = "raise"
    THEN OracleError("Playlist generation temporarily unavailable. Please try again.")
    ELSE IF reply.kind = "text"
    THEN OracleError("Couldn't generate playlist concept. Try rephrasing your request.")
    ELSE IF ~(RequiredCustom \subseteq reply.doc.keys)
    THEN OracleError("Playlist generation temporarily unavailable. Please try again.")
    ELSE reply.doc

\* ------------------------------------------------------------- entry points
EntryPoints == {"mood", "custom"}

Texts ==
    {<<>>, <<" ", " ", " ", " ", " ">>, <<"s", "a", "d">>,
     <<"h", "a", "p", "p", "y">>}

\* what search_ai_recommended_tracks may hand back to the entry point
PipeTrackLists == {<<>>, Ids(1), Ids(2)}

\* the entry point's answer: the ElenaDJ of main.py returns a message, the
\* route of backend.py a JSON body with an HTTP status
Out(v, k, status) == [k |-> k, status |-> IF v = "backend" THEN status ELSE 0]
NoOut == [k |-> "-", status |-> 0]

\* an exception inside the entry point: the routes of backend.py catch it
\* (except Exception as e: return jsonify({"error": str(e)}), 500), the
\* methods of main.py have no handler
Raise(v) ==
    IF v = "backend" THEN Out(v, "server_error", 500) ELSE Out(v, "raised", 0)

\* the first test of the entry point on its text
EntryRejects(entry, text) ==
    IF entry = "mood" THEN text = <<>> ELSE TooShort(text, 5)

PipelineIdle ==
    /\ pipe_pc = "idle"
    /\ pipe_entry = "-"
    /\ pipe_text = <<>>
    /\ pipe_reco = NoDoc
    /\ pipe_uris = <<>>
    /\ pipe_out = NoOut

\* the text test and `if not self.is_authenticated()`
PipeStart ==
    /\ pipe_pc = "idle"
    /\ \E entry \in EntryPoints, text \in Texts :
          /\ pipe_entry' = entry
          /\ pipe_text' = text
          /\ IF EntryRejects(entry, text)
             THEN /\ pipe_pc' = "done"
                  /\ pipe_out' = Out(variant, "input_error", 400)
                  /\ UNCHANGED authVars
             ELSE /\ DoIsAuthenticated("default")
                  /\ IF last'.ret.k = "true"
                     THEN pipe_pc' = "oracle" /\ pipe_out' = pipe_out
                     ELSE IF last'.ret.k = "raised"
                     THEN pipe_pc' = "done" /\ pipe_out' = Raise(variant)
                     ELSE IF variant = "main"
                     THEN pipe_pc' = "auth_url" /\ pipe_out' = pipe_out
                     ELSE /\ pipe_pc' = "done"
                          /\ pipe_out' = Out(variant, "auth_required", 401)
    /\ UNCHANGED <<pipe_reco, pipe_uris, pubVars>>

\* auth_url = self.get_auth_url() and the message that carries it (main.py)
PipeAuthUrl ==
    /\ pipe_pc \in {"auth_url", "reauth_url"}
    /\ DoGetAuthUrl("default")
    /\ pipe_pc' = "done"
    /\ pipe_out' = Out(variant, IF pipe_pc = "auth_url" THEN "auth_required"
                                ELSE "auth_expired", 401)
    /\ UNCHANGED <<pipe_entry, pipe_text, pipe_reco, pipe_uris, pubVars>>

\* mood_analysis = self.analyze_mood(...) / playlist_concept =
\* self.generate_custom_playlist_ai(...), and `if "error" in` the result
PipeOracle ==
    /\ pipe_pc = "oracle"
    /\ \E reply \in Replies :
          \E r \in {IF pipe_entry = "mood" THEN AnalyzeMood(pipe_text, reply)
                    ELSE GenerateCustomPlaylistAi(pipe_text, reply)} :
             /\ pipe_reco' = r
             /\ IF "error" \in r.keys
                THEN pipe_pc' = "done" /\ pipe_out' = Out(variant, "oracle_error", 400)
                ELSE pipe_pc' = "search" /\ pipe_out' = pipe_out
    /\ UNCHANGED <<pipe_entry, pipe_text, pipe_uris, authVars, pubVars>>

\* mutant: the entry point goes on with an empty result
NoTrackUrisNever(uris) == FALSE

\* if not track_uris
NoTrackUris(uris) == uris = <<>>

\* track_uris = self.search_ai_recommended_tracks(...): without a handle the
\* answer is []; len(recommended_songs) stands before the try and raises for a
\* value without a length; the loop then finds any list, none for no
\* candidates.  Then `if not track_uris`, and for the mood entry point
\* mood_analysis.get('emotion', 'Mixed').title()
PipeSearch ==
    /\ pipe_pc = "search"
    /\ DoGetAuthenticatedClient("default")
    /\ \E uris \in PipeTrackLists :
          /\ (NoClient(last'.ret) \/ ~pipe_reco.songs_sized
                \/ pipe_reco.recommended_songs = <<>>) => uris = <<>>
          /\ pipe_uris' = uris
          /\ IF ~NoClient(last'.ret) /\ ~pipe_reco.songs_sized
             THEN pipe_pc' = "done" /\ pipe_out' = Raise(variant)
             ELSE IF NoTrackUris(uris)
             THEN pipe_pc' = "done" /\ pipe_out' = Out(variant, "no_tracks", 404)
             ELSE IF pipe_entry = "mood" /\ ~pipe_reco.emotion_str
             THEN pipe_pc' = "done" /\ pipe_out' = Raise(variant)
             ELSE pipe_pc' = "create" /\ pipe_out' = pipe_out
    /\ UNCHANGED <<pipe_entry, pipe_text, pipe_reco, pubVars>>

\* playlist_result = self.create_playlist(playlist_data, track_uris), the
\* tests on its error and the answer built from it; main.py joins the genres
\* (and, for the custom entry point, the themes) into its message
PipeCreate ==
    /\ pipe_pc = "create"
    /\ DoCreatePlaylistOf(pipe_uris)
    /\ IF p_ret'.k = "auth_needed"
       THEN IF variant = "main"
            THEN pipe_pc' = "reauth_url" /\ pipe_out' = pipe_out
            ELSE pipe_pc' = "done" /\ pipe_out' = Out(variant, "auth_expired", 401)
       ELSE IF p_ret'.k # "success"
       THEN pipe_pc' = "done" /\ pipe_out' = Out(variant, "playlist_error", 500)
       ELSE IF variant = "main"
               /\ (~pipe_reco.genres_strs
                     \/ (pipe_entry = "custom" /\ "themes" \in pipe_reco.keys
                           /\ ~pipe_reco.themes_strs))
       THEN pipe_pc' = "done" /\ pipe_out' = Raise(variant)
       ELSE pipe_pc' = "done" /\ pipe_out' = Out(variant, "success", 200)
    /\ UNCHANGED <<pipe_entry, pipe_text, pipe_reco, pipe_uris>>

\* ------------------------------------------------------------- concurrent calls
\* Two requests served at once, each running get_authenticated_client for the
\* default session on the one ElenaDJ object.  A call is followed statement by
\* statement; a thread may be switched wherever a collaborator call (probe,
\* refresh, identity call) is waiting for the network.
Threads == {1, 2}

Running == [k |-> "-", tok |-> NoTok]

\* del self.spotify_clients[user_id]
PoolDel(pool, u) ==
    SubSeq(pool, 1, PoolIndex(pool, u) - 1)
        \o SubSeq(pool, PoolIndex(pool, u) + 1, Len(pool))

\* list(self.spotify_clients.items()) in backend.py; main.py iterates the
\* dictionary itself and leaves the loop after its first item
Snapshot(v, pool) ==
    IF v = "backend" \/ pool = <<>> THEN pool ELSE <<pool[1]>>

RaceIdle ==
    /\ t_pc = [th \in Threads |-> "idle"]
    /\ t_snap = [th \in Threads |-> <<>>]
    /\ t_tok = [th \in Threads |-> NoTok]
    /\ t_ret = [th \in Threads |-> Running]

RaceShared(pool, cache, next) ==
    /\ spotify_clients' = pool
    /\ token_cache' = cache
    /\ next_tok' = next
    /\ UNCHANGED <<variant, spotify_auths, clock_expired, rejected, net_up, last>>

RaceReturn(th, ret) ==
    /\ t_pc' = [t_pc EXCEPT ![th] = "done"]
    /\ t_ret' = [t_ret EXCEPT ![th] = ret]

\* for user_id, client in list(self.spotify_clients.items()):
GStart(th) ==
    /\ t_pc[th] = "idle"
    /\ t_snap' = [t_snap EXCEPT ![th] = Snapshot(variant, spotify_clients)]
    /\ t_pc' = [t_pc EXCEPT ![th] = IF spotify_clients = <<>> THEN "step2"
                                    ELSE "probe"]
    /\ RaceShared(spotify_clients, token_cache, next_tok)
    /\ UNCHANGED <<t_tok, t_ret>>

\* client.current_user() answers: return client, or the except clause
GProbe(th) ==
    /\ t_pc[th] = "probe"
    /\ IF CurrentUserOk(t_snap[th][1].tok, net_up)
       THEN RaceReturn(th, RetClient(t_snap[th][1].tok))
       ELSE t_pc' = [t_pc EXCEPT ![th] = "evict"] /\ t_ret' = t_ret
    /\ RaceShared(spotify_clients, token_cache, next_tok)
    /\ UNCHANGED <<t_snap, t_tok>>

\* del self.spotify_clients[user_id], in the except clause of the probe: a
\* key that is no longer in the dictionary raises KeyError, which no handler
\* of get_authenticated_client catches.  Then the next item of the list
\* (backend.py) or break (main.py).
GEvict(th) ==
    /\ t_pc[th] = "evict"
    /\ IF t_snap[th][1].user \in PoolUsers(spotify_clients)
       THEN /\ RaceShared(PoolDel(spotify_clients, t_snap[th][1].user),
                          token_cache, next_tok)
            /\ t_snap' = [t_snap EXCEPT ![th] = Tail(t_snap[th])]
            /\ t_pc' = [t_pc EXCEPT ![th] = IF Tail(t_snap[th]) = <<>> THEN "step2"
                                            ELSE "probe"]
            /\ t_ret' = t_ret
       ELSE /\ RaceShared(spotify_clients, token_cache, next_tok)
            /\ RaceReturn(th, RetRaised)
            /\ t_snap' = t_snap
    /\ UNCHANGED t_tok

\* mutant: a refresh is not begun while another call is refreshing the token
GCachedLocked(th) ==
    /\ t_pc[th] = "step2"
    /\ IF "default" \notin spotify_auths \/ token_cache["default"].k # "token"
       THEN RaceReturn(th, RetNone) /\ t_tok' = t_tok
       ELSE /\ t_tok' = [t_tok EXCEPT ![th] = token_cache["default"].tok]
            /\ t_pc' = [t_pc EXCEPT ![th] =
                  IF IsTokenExpired(token_cache["default"].tok)
                     /\ ~\E o \in Threads \ {th} :
                           t_pc[o] = "refresh" /\ t_tok[o] = token_cache["default"].tok
                  THEN "refresh" ELSE "validate"]
            /\ t_ret' = t_ret
    /\ RaceShared(spotify_clients, token_cache, next_tok)
    /\ UNCHANGED t_snap

\* if session_id in self.spotify_auths: token_info = auth.get_cached_token();
\* if token_info: if auth.is_token_expired(token_info): the refresh is begun
\* with the token that was read.  A cache that cannot be read raises inside
\* the try: return None.
GCached(th) ==
    /\ t_pc[th] = "step2"
    /\ IF "default" \notin spotify_auths \/ token_cache["default"].k # "token"
       THEN RaceReturn(th, RetNone) /\ t_tok' = t_tok
       ELSE /\ t_tok' = [t_tok EXCEPT ![th] = token_cache["default"].tok]
            /\ t_pc' = [t_pc EXCEPT ![th] =
                  IF IsTokenExpired(token_cache["default"].tok)
                  THEN "refresh" ELSE "validate"]
            /\ t_ret' = t_ret
    /\ RaceShared(spotify_clients, token_cache, next_tok)
    /\ UNCHANGED t_snap

\* token_info = auth.refresh_access_token(token_info['refresh_token'])
\* answers: the new token is cached, or the call raises (return None)
GRefresh(th) ==
    /\ t_pc[th] = "refresh"
    /\ IF RefreshOk(t_tok[th], net_up)
       THEN /\ RaceShared(spotify_clients,
                          [token_cache EXCEPT !["default"] =
                              TokEntry(Token(next_tok, t_tok[th].user))],
                          next_tok + 1)
            /\ t_tok' = [t_tok EXCEPT ![th] = Token(next_tok, t_tok[th].user)]
            /\ t_pc' = [t_pc EXCEPT ![th] = "validate"]
            /\ t_ret' = t_ret
       ELSE /\ RaceShared(spotify_clients, token_cache, next_tok)
            /\ RaceReturn(th, RetNone)
            /\ t_tok' = t_tok
    /\ UNCHANGED t_snap

\* client = spotipy.Spotify(auth=...); user_info = client.current_user();
\* self.spotify_clients[user_id] = client; return client
GValidate(th) ==
    /\ t_pc[th] = "validate"
    /\ IF CurrentUserOk(t_tok[th], net_up)
       THEN /\ RaceShared(PoolPut(spotify_clients, t_tok[th].user, t_tok[th]),
                          token_cache, next_tok)
            /\ RaceReturn(th, RetClient(t_tok[th]))
       ELSE /\ RaceShared(spotify_clients, token_cache, next_tok)
            /\ RaceReturn(th, RetNone)
    /\ UNCHANGED <<t_snap, t_tok>>

\* the network comes and goes while the calls run
RaceNetChange ==
    /\ net_up' = ~net_up
    /\ UNCHANGED <<variant, spotify_clients, spotify_auths, token_cache, next_tok,
                   clock_expired, rejected, last, raceVars>>

\* the provider stops accepting a token while the calls run
RaceReject(n) ==
    /\ n < next_tok /\ n \notin rejected
    /\ rejected' = rejected \cup {n}
    /\ UNCHANGED <<variant, spotify_clients, spotify_auths, token_cache, next_tok,
                   clock_expired, net_up, last, raceVars>>

\* a process with no handle pooled, or with the handle of one authenticated
\* user, whose token the provider may since have rejected
ResolveInit ==
    /\ variant \in Variants
    /\ \E authed \in BOOLEAN :
          /\ spotify_clients = IF authed THEN <<[user |-> "u1", tok |-> Token(1, "u1")]>>
                               ELSE <<>>
          /\ spotify_auths = IF authed THEN {"default"} ELSE {}
          /\ token_cache = [s \in Sessions |->
                              IF authed /\ s = "default" THEN TokEntry(Token(1, "u1"))
                              ELSE NoEntry]
          /\ next_tok = IF authed THEN 2 ELSE 1
          /\ rejected \in IF authed THEN {{}, {1}} ELSE {{}}
    /\ clock_expired = {}
    /\ net_up = TRUE
    /\ last = [op |-> "env", sid |-> "", ret |-> RetNone, msg |-> <<>>,
               calls |-> <<>>, url |-> NoUrl, created |-> FALSE, exch |-> "-",
               me |-> NoMe]
    /\ ResolverIdle
    /\ LabelIdle
    /\ PublishIdle
    /\ PipelineIdle
    /\ RaceIdle
    /\ RedirectIdle

ResolveNext ==
    \/ ResolveStart /\ ResolveFrame
    \/ LoopHead /\ ResolveFrame
    \/ SearchCall /\ ResolveFrame
    \/ InspectStep /\ ResolveFrame

\* one run of search_ai_recommended_tracks against any catalog behaviour
ResolveSpec == ResolveInit /\ [][ResolveNext]_vars

\* the runs followed to their end: the interpreter goes on while a step is
\* left, every collaborator call returns or raises
\* the recommendations of the runs followed to their end
LiveInputs ==
    /\ search_data.recommended_songs \in {<<>>, <<LabelAB>>, <<LabelNoTitle, LabelAB>>}
    /\ search_data.language_preference \in {"English", "Turkish"}

ResolveLiveNext ==
    \/ ResolveStart /\ LiveInputs' /\ ResolveFrame
    \/ LoopHead /\ ResolveFrame
    \/ SearchCall /\ ResolveFrame
    \/ InspectStep /\ ResolveFrame

ResolveLiveSpec ==
    ResolveInit /\ [][ResolveLiveNext]_vars /\ WF_vars(ResolveLiveNext)

LabelSpecInit ==
    /\ variant = "backend"
    /\ spotify_clients = <<>>
    /\ spotify_auths = {}
    /\ token_cache = [s \in Sessions |-> NoEntry]
    /\ next_tok = 1
    /\ clock_expired = {}
    /\ rejected = {}
    /\ net_up = TRUE
    /\ last = [op |-> "env", sid |-> "", ret |-> RetNone, msg |-> <<>>,
               calls |-> <<>>, url |-> NoUrl, created |-> FALSE, exch |-> "-",
               me |-> NoMe]
    /\ ResolverIdle
    /\ LabelInit
    /\ PublishIdle
    /\ PipelineIdle
    /\ RaceIdle
    /\ RedirectIdle

LabelNext ==
    \/ ConfigStep /\ LabelFrame
    \/ ParseStep /\ LabelFrame

\* the profile lookup and the label parse, for every language and label
LabelSpec == LabelSpecInit /\ [][LabelNext]_vars

PublishInit ==
    /\ variant \in Variants
    /\ \E authed \in BOOLEAN :
          /\ spotify_clients = IF authed THEN <<[user |-> "u1", tok |-> Token(1, "u1")]>>
                               ELSE <<>>
          /\ spotify_auths = IF authed THEN {"default"} ELSE {}
          /\ token_cache = [s \in Sessions |->
                              IF authed /\ s = "default" THEN TokEntry(Token(1, "u1"))
                              ELSE NoEntry]
          /\ next_tok = IF authed THEN 2 ELSE 1
          /\ rejected \in IF authed THEN {{}, {1}} ELSE {{}}
    /\ clock_expired = {}
    /\ net_up = TRUE
    /\ last = [op |-> "env", sid |-> "", ret |-> RetNone, msg |-> <<>>,
               calls |-> <<>>, url |-> NoUrl, created |-> FALSE, exch |-> "-",
               me |-> NoMe]
    /\ ResolverIdle
    /\ LabelIdle
    /\ PublishIdle
    /\ PipelineIdle
    /\ RaceIdle
    /\ RedirectIdle

PublishNext ==
    \/ DoCreatePlaylist /\ PublishFrame
    \/ NetChange /\ AuthFrame
    \/ \E n \in 1..MaxTokens : Reject(n) /\ AuthFrame

\* create_playlist, called again and again while the network and the provider
\* change their minds
PublishSpec == PublishInit /\ [][PublishNext]_vars

RedirectInit ==
    /\ variant \in Variants
    /\ spotify_clients = <<>>
    /\ spotify_auths = {}
    /\ token_cache = [s \in Sessions |-> NoEntry]
    /\ next_tok = 1
    /\ clock_expired = {}
    /\ rejected = {}
    /\ net_up = TRUE
    /\ last = [op |-> "env", sid |-> "", ret |-> RetNone, msg |-> <<>>,
               calls |-> <<>>, url |-> NoUrl, created |-> FALSE, exch |-> "-",
               me |-> NoMe]
    /\ ResolverIdle
    /\ LabelIdle
    /\ PublishIdle
    /\ PipelineIdle
    /\ RaceIdle
    /\ os_env \in [SPOTIFY_REDIRECT_URI : EnvUrls, REPL_URL : EnvUrls,
                   REPLIT_DEV_DOMAIN : EnvNames, REPL_SLUG : {NoEnv, <<"n">>},
                   REPL_OWNER : {NoEnv, <<"n">>}]
    /\ redirect_uri = NoEnv

RedirectNext ==
    \/ SetupApis /\ RedirectFrame
    \/ \E sid \in Sessions : GetAuthUrlAfterSetup(sid) /\ RedirectFrame

\* the start of the process in any deployment environment, then get_auth_url
RedirectSpec == RedirectInit /\ [][RedirectNext]_vars

PipelineInit ==
    /\ variant \in Variants
    /\ \E authed \in BOOLEAN :
          /\ spotify_clients = IF authed THEN <<[user |-> "u1", tok |-> Token(1, "u1")]>>
                               ELSE <<>>
          /\ spotify_auths = IF authed THEN {"default"} ELSE {}
          /\ token_cache = [s \in Sessions |->
                              IF authed /\ s = "default" THEN TokEntry(Token(1, "u1"))
                              ELSE NoEntry]
          /\ next_tok = IF authed THEN 2 ELSE 1
          /\ rejected \in IF authed THEN {{}, {1}} ELSE {{}}
    /\ clock_expired = {}
    /\ net_up = TRUE
    /\ last = [op |-> "env", sid |-> "", ret |-> RetNone, msg |-> <<>>,
               calls |-> <<>>, url |-> NoUrl, created |-> FALSE, exch |-> "-",
               me |-> NoMe]
    /\ ResolverIdle
    /\ LabelIdle
    /\ PublishIdle
    /\ PipelineIdle
    /\ RaceIdle
    /\ RedirectIdle

PipelineNext ==
    \/ PipeStart /\ PipelineFrame
    \/ PipeAuthUrl /\ PipelineFrame
    \/ PipeOracle /\ PipelineFrame
    \/ PipeSearch /\ PipelineFrame
    \/ PipeCreate /\ PipelineFrame
    \/ NetChange /\ AuthFrame
    \/ \E n \in 1..MaxTokens : Reject(n) /\ AuthFrame

\* one request through an entry point of either program, for every answer of
\* the language model, the catalogue and the provider
PipelineSpec == PipelineInit /\ [][PipelineNext]_vars

\* a process whose default session was authenticated as u1: the handle is
\* pooled or, after a restart, only the token is cached; the token may have
\* reached its expiry margin and the provider may have stopped accepting it
RaceInit ==
    /\ variant \in Variants
    /\ spotify_clients \in {<<>>, <<[user |-> "u1", tok |-> Token(1, "u1")]>>}
    /\ spotify_auths = {"default"}
    /\ token_cache = [s \in Sessions |->
                         IF s = "default" THEN TokEntry(Token(1, "u1")) ELSE NoEntry]
    /\ next_tok = 2
    /\ clock_expired \in {{}, {1}}
    /\ rejected = {}
    /\ net_up = TRUE
    /\ last = [op |-> "env", sid |-> "", ret |-> RetNone, msg |-> <<>>,
               calls |-> <<>>, url |-> NoUrl, created |-> FALSE, exch |-> "-",
               me |-> NoMe]
    /\ ResolverIdle
    /\ LabelIdle
    /\ PublishIdle
    /\ PipelineIdle
    /\ RedirectIdle
    /\ RaceIdle

RaceNext ==
    \/ \E th \in Threads : GStart(th) /\ RaceFrame
    \/ \E th \in Threads : GProbe(th) /\ RaceFrame
    \/ \E th \in Threads : GEvict(th) /\ RaceFrame
    \/ \E th \in Threads : GCached(th) /\ RaceFrame
    \/ \E th \in Threads : GRefresh(th) /\ RaceFrame
    \/ \E th \in Threads : GValidate(th) /\ RaceFrame
    \/ RaceNetChange /\ RaceFrame
    \/ \E n \in 1..MaxTokens : RaceReject(n) /\ RaceFrame

\* two calls of get_authenticated_client interleaved in every way
RaceSpec == RaceInit /\ [][RaceNext]_vars

Init ==
    /\ variant \in Variants
    /\ spotify_clients = <<>>
    /\ spotify_auths = {}
    /\ token_cache = [s \in Sessions |-> NoEntry]
    /\ next_tok = 1
    /\ clock_expired = {}
    /\ rejected = {}
    /\ net_up = TRUE
    /\ last = [op |-> "env", sid |-> "", ret |-> RetNone, msg |-> <<>>,
               calls |-> <<>>, url |-> NoUrl, created |-> FALSE, exch |-> "-",
               me |-> NoMe]
    /\ ResolverIdle
    /\ LabelIdle
    /\ PublishIdle
    /\ PipelineIdle
    /\ RaceIdle
    /\ RedirectIdle

Next ==
    \/ \E sid \in Sessions : DoGetAuthenticatedClient(sid) /\ AuthFrame
    \/ \E sid \in Sessions : DoIsAuthenticated(sid) /\ AuthFrame
    \/ \E sid \in CallbackSessions : DoAuthenticateWithCode(sid) /\ AuthFrame
    \/ \E sid \in Sessions : DoGetAuthUrl(sid) /\ AuthFrame
    \/ NetChange /\ AuthFrame
    \/ \E sid \in Sessions : ClockExpire(sid) /\ AuthFrame
    \/ \E n \in 1..MaxTokens : Reject(n) /\ AuthFrame
    \/ \E sid \in Sessions : CorruptCache(sid) /\ AuthFrame
    \/ Restart /\ AuthFrame

\* the session authenticator: every operation and every change of the environment
Spec == Init /\ [][Next]_vars

\* ============================================================= claims
GAC == "get_authenticated_client"
AWC == "authenticate_with_code"

Contains(seq, x) == \E i \in 1..Len(seq) : seq[i] = x
Called(calls, c) == {i \in 1..Len(calls) : calls[i].c = c}
LiveIn(pool, up, rej) == {i \in 1..Len(pool) : up /\ pool[i].tok.id \notin rej}
Entries(pool) == {pool[i] : i \in 1..Len(pool)}

\* C1: for every recommendation, every catalog behaviour and every
\* target_count >= 0, the sequence search_ai_recommended_tracks returns is no
\* longer than target_count and holds no identifier twice.
C1_BoundedNoDuplicates ==
    r_pc = "done" =>
        /\ Len(r_ret) <= target_count
        /\ \A i, j \in 1..Len(r_ret) : r_ret[i] = r_ret[j] => i = j

\* C11: search_ai_recommended_tracks called with target_count = 0 returns an
\* empty sequence without any network call: no identity probe, no token
\* refresh, no search and no artist lookup.
C11_ZeroTargetNoNetwork ==
    (r_pc = "done" /\ target_count = 0) =>
        /\ r_ret = <<>>
        /\ ~catalog_called
        /\ last.calls = <<>>

\* C12: a recommendation whose recommended_songs is empty or absent resolves
\* to an empty track list, and no search and no artist lookup is issued.
C12_NoCandidatesNoSearch ==
    (r_pc = "done" /\ (~search_data.has_songs \/ search_data.recommended_songs = <<>>)) =>
        /\ r_ret = <<>>
        /\ ~catalog_called

\* C12 witness: a run with a handle and no recommended_songs key has returned
C12_Witness ==
    /\ r_pc = "done"
    /\ ~search_data.has_songs
    /\ last.ret.k = "client"
    /\ target_count > 0
    /\ r_ret = <<>>

\* C16: when get_authenticated_client yields 'no session',
\* search_ai_recommended_tracks returns an empty sequence, without raising and
\* without a search or an artist lookup.
C16_NoSessionEmpty ==
    (r_pc # "idle" /\ last.ret.k # "client") =>
        /\ r_pc = "done"
        /\ r_ret = <<>>
        /\ ~catalog_called
        /\ last.ret.k = "none"

\* C16 witness: the pooled handle and the cached token were both tried and
\* refused, and the run has returned for a request with candidates
C16_Witness ==
    /\ r_pc = "done"
    /\ last.ret.k = "none"
    /\ last.calls # <<>>
    /\ search_data.recommended_songs # <<>>
    /\ target_count > 0

\* the scenario of C13: the English profile, the candidate "artist - title",
\* its first search (first market, exact-field query) has answered a track of
\* popularity 70 and then one of popularity 55, each with a listed artist and
\* an identifier not yet in the result, and the first of them is up
SkinnyLove == <<Track("x", 70, 1, TRUE), Track("y", 55, 1, TRUE)>>
C13_Scenario ==
    /\ r_pc = "inspect"
    /\ Markets = <<"US", "GB", "CA", "AU">> /\ MinPopularity = 60
    /\ Song = LabelAB
    /\ r_market = 1 /\ r_query = 1
    /\ r_results = SkinnyLove /\ r_track = 1
    /\ "x" \notin Elems(track_uris) /\ "y" \notin Elems(track_uris)

\* the popularity-70 track is accepted and the popularity-55 one is not evaluated
C13_Accepted ==
    /\ track_uris' = Append(track_uris, "x")
    /\ found_track'
    /\ r_pc' = "head" /\ r_cand' = r_cand + 1

\* C13 as stated: in the scenario the resolver accepts the popularity-70 track
\* and does not evaluate the popularity-55 track.
C13_AcceptsFirstAsStated == [][C13_Scenario => C13_Accepted]_vars

\* C13 amended: in the scenario the artist of the popularity-70 track is looked
\* up; when the lookup fails or reports a popularity of at least 40 the track is
\* accepted and the popularity-55 track is not evaluated; when it reports less
\* (or none) the popularity-70 track is not accepted and the popularity-55
\* track is evaluated next.
C13_AcceptsFirstIfArtistPasses ==
    [][C13_Scenario =>
        /\ artist_info'.called
        /\ (~artist_info'.ok \/ Popularity(artist_info'.popularity) >= 40)
              => C13_Accepted
        /\ (artist_info'.ok /\ Popularity(artist_info'.popularity) < 40)
              => /\ track_uris' = track_uris
                 /\ r_pc' = "inspect" /\ r_track' = 2 /\ r_results' = r_results]_vars

\* C13 witness: the popularity-70 track of the scenario has just been accepted
\* on the strength of its artist's popularity
C13_Witness ==
    /\ r_pc = "head" /\ r_cand = 2
    /\ GetSongs(search_data)[1] = LabelAB
    /\ MinPopularity = 60
    /\ r_market = 1 /\ r_query = 1
    /\ r_results = SkinnyLove /\ r_track = 1
    /\ track_uris = <<"x">>
    /\ artist_info = Lookup(TRUE, 60)

\* C17: the result is ordered by candidate: each candidate contributes at most
\* one identifier, its first accepted track, so a step that adds to the result
\* adds exactly one identifier at the end and finishes its candidate; hence the
\* result is never longer than the candidate list.
C17_OnePerCandidateInOrder ==
    [][/\ track_uris' # track_uris
          => /\ Len(track_uris') = Len(track_uris) + 1
             /\ SubSeq(track_uris', 1, Len(track_uris)) = track_uris
             /\ r_cand' = r_cand + 1
       /\ Len(track_uris') <= Len(GetSongs(search_data'))]_vars

\* position i of s starts the separator " - "
IsSep(s, i) == i + 2 <= Len(s) /\ s[i] = " " /\ s[i + 1] = "-" /\ s[i + 2] = " "
\* n spaces
Spaces(n) == [i \in 1..n |-> " "]
\* t is s without its leading and trailing spaces
Trimmed(t, s) ==
    /\ \E a, b \in 0..Len(s) : s = Spaces(a) \o t \o Spaces(b)
    /\ t # <<>> => (t[1] # " " /\ t[Len(t)] # " ")

\* C14: a label containing " - " is split at the first occurrence only: the
\* artist is the trimmed text before it, the title the trimmed text after it,
\* later separators included ("A - B - C" gives "A" and "B - C"); a label
\* without the separator gives an empty artist and the trimmed label as title.
C14_SplitAtFirstSeparator ==
    l_artist # NotStr =>
        /\ IF \E i \in 1..Len(l_song) : IsSep(l_song, i)
           THEN \E i \in 1..Len(l_song) :
                   /\ IsSep(l_song, i)
                   /\ \A j \in 1..(i - 1) : ~IsSep(l_song, j)
                   /\ Trimmed(l_artist, SubSeq(l_song, 1, i - 1))
                   /\ Trimmed(l_title, SubSeq(l_song, i + 3, Len(l_song)))
           ELSE l_artist = <<>> /\ Trimmed(l_title, l_song)
        /\ l_song = LabelABC =>
              l_artist = <<"A">> /\ l_title = <<"B", " ", "-", " ", "C">>

\* C14 witness: "A - B - C" has been parsed
C14_Witness ==
    /\ l_song = LabelABC
    /\ l_artist = <<"A">>
    /\ l_title = <<"B", " ", "-", " ", "C">>

CreatePlaylistStep == last'.op = GAC /\ last'.sid = "default"
PCalled(calls, c) == {i \in 1..Len(calls) : calls[i].c = c}

\* C18: create_playlist called when no live handle is available returns the
\* authentication-required error, auth_needed set, and issues no
\* playlist-creation and no add-items call.
C18_NoHandleAuthRequired ==
    [][(CreatePlaylistStep /\ last'.ret.k # "client") =>
          /\ p_ret'.k = "auth_needed"
          /\ p_calls' = <<>>
          /\ playlists' = playlists]_vars

\* C18 witness: a create_playlist whose pooled handle failed its probe has
\* returned the authentication-required error
C18_Witness ==
    /\ last.op = GAC
    /\ last.ret.k = "none"
    /\ last.calls # <<>>
    /\ p_ret.k = "auth_needed"
    /\ p_tracks # <<>>

\* C19: create_playlist with a live handle and an empty track list returns the
\* no-tracks-found error only after the playlist-creation call was issued, so
\* the playlist exists on the provider; no add-items call is made, and nothing
\* deletes a created playlist.
C19_EmptyListAfterCreation ==
    [][/\ (CreatePlaylistStep /\ last'.ret.k = "client" /\ p_tracks' = <<>>) =>
             /\ PCalled(p_calls', "playlist_add_items") = {}
             /\ p_ret'.k \in {"no_tracks", "failed"}
             /\ p_ret'.k = "no_tracks" =>
                   /\ PCalled(p_calls', "user_playlist_create") # {}
                   /\ playlists' = Append(playlists, [owner |-> last'.ret.tok.user,
                                                      public |-> FALSE, items |-> <<>>])
             /\ p_ret'.k = "failed" =>
                   /\ playlists' = playlists
                   /\ p_calls'[Len(p_calls')].c \in {"current_user", "user_playlist_create"}
       /\ Len(playlists') >= Len(playlists)
       /\ SubSeq(playlists', 1, Len(playlists)) = playlists]_vars

\* C19 witness: the no-tracks-found error was returned and the empty playlist
\* is on the provider
C19_Witness ==
    /\ last.op = GAC
    /\ p_ret.k = "no_tracks"
    /\ p_tracks = <<>>
    /\ playlists # <<>>
    /\ playlists[Len(playlists)].items = <<>>

\* C20: a successful create_playlist with a non-empty track list creates
\* exactly one playlist, private, under the authenticated user's id, issues
\* add-items exactly once with the full list in its order, reports
\* track_count = len(track_uris) and returns at most 5 sample strings.
C20_SuccessCreatesOnePrivatePlaylist ==
    [][(CreatePlaylistStep /\ p_ret'.k = "success") =>
          /\ p_tracks' # <<>>
          /\ playlists' = Append(playlists, [owner |-> last'.ret.tok.user,
                                             public |-> FALSE, items |-> p_tracks'])
          /\ last'.ret.k = "client"
          /\ Cardinality(PCalled(p_calls', "user_playlist_create")) = 1
          /\ Cardinality(PCalled(p_calls', "playlist_add_items")) = 1
          /\ \A i \in PCalled(p_calls', "playlist_add_items") :
                p_calls'[i].items = p_tracks'
          /\ \A i \in PCalled(p_calls', "user_playlist_create") :
                p_calls'[i].user = last'.ret.tok.user
          /\ p_ret'.track_count = Len(p_tracks')
          /\ Len(p_ret'.sample_tracks) <= 5]_vars

\* C20 witness: a list of more than five tracks was published with success
C20_Witness ==
    /\ last.op = GAC
    /\ p_ret.k = "success"
    /\ Len(p_tracks) > 5
    /\ Len(p_ret.sample_tracks) = 5
    /\ playlists[Len(playlists)].items = p_tracks

\* C22: the OAuth context of a session id is created at most once: by the
\* first get_auth_url, or the first authenticate_with_code carrying a code,
\* for that session id; later calls reuse it; no operation removes a context
\* from the map (a restart of the process starts with an empty map); and
\* get_auth_url never changes the handle pool.
C22_ContextCreatedOnce ==
    [][last'.op # "env" =>
          /\ spotify_auths \subseteq spotify_auths'
          /\ last'.created <=> /\ last'.op \in {"get_auth_url", AWC}
                               /\ last'.sid \notin spotify_auths
                               /\ last'.sid \in spotify_auths'
          /\ spotify_auths' \subseteq spotify_auths \cup {last'.sid}
          /\ last'.op = "get_auth_url" =>
                /\ last'.sid \in spotify_auths'
                /\ spotify_clients' = spotify_clients
                /\ token_cache' = token_cache
          /\ (last'.op = AWC /\ last'.sid \notin spotify_auths) =>
                (last'.created <=> HasParam(ParseQs(last'.url), "code"))]_vars

\* C22 witness: get_auth_url has reused the context that an earlier
\* authenticate_with_code created, with a handle in the pool
C22_Witness ==
    /\ last.op = "get_auth_url"
    /\ ~last.created
    /\ last.sid \in spotify_auths
    /\ spotify_clients # <<>>

\* C23: when no redirect URI can be resolved from the deployment environment
\* (no redirect-URI, tunnel-URL or dev-domain setting), get_auth_url fails
\* with a configuration error and creates no OAuth context.
C23_NoRedirectUriFails ==
    (/\ ~Truthy(os_env.SPOTIFY_REDIRECT_URI)
     /\ ~Truthy(os_env.REPL_URL)
     /\ ~Truthy(os_env.REPLIT_DEV_DOMAIN)
     /\ ~Truthy(os_env.REPL_SLUG)
     /\ last.op = "get_auth_url") =>
        /\ last.ret.k = "raised"
        /\ spotify_auths = {}

\* the (market, query) pair after the one the resolver stands at, markets
\* outside and queries inside
NextPairIs(m, q) ==
    IF r_query < Len(Queries)
    THEN m = r_market /\ q = r_query + 1
    ELSE m = r_market + 1 /\ q = 1
LastPair == r_query = Len(Queries) /\ r_market = Len(Markets)
\* the track the track loop stands at
Inspected == r_results[r_track]

\* C25: for one candidate the search calls go out in market-major order:
\* markets in table order and, inside each market, the queries in chain order
\* (exact-field artist/track, quoted artist and title, unquoted artist and
\* title, exact-field track only); no query goes to market k+1 before the
\* whole chain was issued in market k.
C25_MarketMajorOrder ==
    [][r_pc' = "search" =>
          /\ r_market' \in 1..Len(Markets') /\ r_query' \in 1..Len(Queries')
          /\ r_pc = "head" => (r_market' = 1 /\ r_query' = 1)
          /\ r_pc \in {"search", "inspect"} =>
                (r_cand' = r_cand /\ NextPairIs(r_market', r_query'))
          /\ Song' = LabelAB =>
                Queries' = << <<"artist:\"", "A", "\" track:\"", "B", "\"">>,
                              <<"\"", "A", "\" \"", "B", "\"">>,
                              <<"A", " ", "B">>,
                              <<"track:\"", "B", "\"">> >>]_vars

\* C25 witness: the second market is about to be searched with the first
\* query, after the four queries of the first market
C25_Witness ==
    /\ r_pc = "search"
    /\ r_market = 2 /\ r_query = 1
    /\ Len(Queries) = 4 /\ Len(Markets) = 4
    /\ r_search = "items"

\* C26: when a search call raises or answers a malformed result, the resolver
\* goes on with the next (market, query) pair of the candidate, and after the
\* last pair with the following candidate; the failed call does not end the
\* resolution and is not issued again.
C26_FailedSearchContinues ==
    [][(r_pc = "search" /\ r_search' \in {"raise", "malformed"}) =>
          /\ track_uris' = track_uris
          /\ r_pc' # "done" /\ r_ret' = NoRet
          /\ IF LastPair
             THEN r_pc' = "head" /\ r_cand' = r_cand + 1
             ELSE /\ r_pc' = "search" /\ r_cand' = r_cand
                  /\ NextPairIs(r_market', r_query')
                  /\ <<r_market', r_query'>> # <<r_market, r_query>>]_vars

\* C26 witness: every search of the first candidate has failed, the last one
\* by raising, and the resolver stands at the second candidate
C26_Witness ==
    /\ r_pc = "head" /\ r_cand = 2
    /\ r_search = "raise"
    /\ Len(GetSongs(search_data)) >= 2
    /\ r_market = Len(Markets) /\ r_query > 1
    /\ track_uris = <<>>

\* C27: a failure while processing one candidate affects only that candidate:
\* every identifier accepted for earlier candidates is still, in order, in
\* the returned sequence.
C27_AcceptedAreReturned ==
    r_pc = "done" => r_ret = track_uris

\* C28: every identifier of the result belongs to a track that, when it was
\* accepted, was not yet in the accumulated result, had a popularity (missing:
\* 0) of at least the profile's minimum and at least one listed artist.
C28_AcceptedPassedTheGates ==
    [][/\ track_uris' # track_uris =>
             /\ r_pc = "inspect"
             /\ SubSeq(track_uris', 1, Len(track_uris)) = track_uris
             /\ \A i \in (Len(track_uris) + 1)..Len(track_uris') :
                   track_uris'[i] = Inspected.uri
             /\ Inspected.uri \notin Elems(track_uris)
             /\ Inspected.popularity # NoPop
             /\ Inspected.popularity >= MinPopularity
             /\ Inspected.artists >= 1
       /\ r_pc' = "done" => Elems(r_ret') \subseteq Elems(track_uris)]_vars

\* C28 witness: a track of popularity 55 was accepted under a profile whose
\* minimum is 45
C28_Witness ==
    /\ r_pc = "head"
    /\ MinPopularity = 45
    /\ r_results # <<>> /\ r_track > 0
    /\ Inspected.popularity = 55
    /\ track_uris # <<>>
    /\ track_uris[Len(track_uris)] = Inspected.uri

\* C29: when a track passes the identifier, popularity and artist gates and the
\* lookup of its first artist fails, the track is accepted anyway: its
\* identifier is appended and the search for the candidate stops.
C29_LookupFailureAccepts ==
    [][(/\ r_pc = "inspect"
        /\ Inspected.uri # PyNone
        /\ Gates(Inspected, track_uris, MinPopularity)
        /\ artist_info'.called /\ ~artist_info'.ok) =>
          /\ track_uris' = Append(track_uris, Inspected.uri)
          /\ found_track'
          /\ r_pc' = "head" /\ r_cand' = r_cand + 1]_vars

\* C29 witness: the second track of a result was accepted after its artist
\* lookup failed
C29_Witness ==
    /\ r_pc = "head"
    /\ artist_info = Lookup(FALSE, NoPop)
    /\ r_track = 2
    /\ track_uris = <<Inspected.uri>>
    /\ found_track

\* C30: when the artist lookup answers, the track is accepted if and only if
\* the artist's popularity (missing: 0) is at least min_popularity - 20; a
\* track this check rejects does not end the candidate: the next track of the
\* result is inspected, then the remaining queries and markets are searched.
C30_ArtistGate ==
    [][(/\ r_pc = "inspect"
        /\ Inspected.uri # PyNone
        /\ Gates(Inspected, track_uris, MinPopularity)
        /\ artist_info'.called /\ artist_info'.ok) =>
          IF (IF artist_info'.popularity = NoPop THEN 0 ELSE artist_info'.popularity)
                >= MinPopularity - 20
          THEN /\ track_uris' # track_uris
               /\ Elems(track_uris') = Elems(track_uris) \cup {Inspected.uri}
               /\ found_track'
               /\ r_pc' = "head"
          ELSE /\ track_uris' = track_uris
               /\ ~found_track'
               /\ IF r_track < Len(r_results)
                  THEN r_pc' = "inspect" /\ r_track' = r_track + 1
                       /\ r_results' = r_results
                  ELSE IF LastPair
                  THEN r_pc' = "head" /\ r_cand' = r_cand + 1
                  ELSE r_pc' = "search" /\ r_cand' = r_cand
                       /\ NextPairIs(r_market', r_query')]_vars

\* C30 witness: the first track was rejected for an artist of popularity 30
\* under the English profile and the second track is up
C30_Witness ==
    /\ r_pc = "inspect" /\ r_track = 2
    /\ MinPopularity = 60
    /\ artist_info = Lookup(TRUE, 30)
    /\ track_uris = <<>>
    /\ ~found_track

\* C2: two get_authenticated_client calls in a row for one session id, nothing
\* happening in between, either both return a handle that passes the liveness
\* probe or both return 'no session'.
C2_ConsecutiveCallsAgree ==
    [][(last.op = GAC /\ last'.op = GAC /\ last'.sid = last.sid) =>
          \/ /\ last.ret.k = "client" /\ last'.ret.k = "client"
             /\ net_up /\ last.ret.tok.id \notin rejected
             /\ net_up' /\ last'.ret.tok.id \notin rejected'
          \/ last.ret.k = "none" /\ last'.ret.k = "none"]_vars

\* C3: a callback URL whose query has an error parameter, with or without a
\* code, makes authenticate_with_code fail with a message that holds the error
\* code and the error description, and the code-for-token exchange is not called.
C3_ErrorParameterDenies ==
    (last.op = AWC /\ HasParam(ParseQs(last.url), "error")) =>
        /\ last.ret.k = "fail"
        /\ Contains(last.msg, last.url.error)
        /\ HasParam(ParseQs(last.url), "error_description")
              => Contains(last.msg, last.url.error_description)
        /\ Called(last.calls, "get_access_token") = {}

\* C4: get_authenticated_client never raises: it returns a handle or 'no session'
\* whichever of the probes, the cache read, the refresh or the identity call fails.
C4_NeverRaises ==
    last.op = GAC => last.ret.k \in {"client", "none"}

\* a refresh failed inside the call and the call returned 'no session'
C4_Witness ==
    /\ last.op = GAC /\ last.ret.k = "none"
    /\ Len(last.calls) > 1
    /\ last.calls[Len(last.calls)].c = "refresh_access_token"
    /\ last.calls[1].c = "current_user"

\* C5: when the pool holds a handle whose probe would succeed, the call returns
\* the first such handle in pool order without reading the token cache or
\* refreshing; the handles before it, whose probes failed, are removed and no
\* other handle is.
C5_FirstLiveHandleReturned ==
    [][(last'.op = GAC /\ LiveIn(spotify_clients, net_up, rejected) # {}) =>
          LET i == Min(LiveIn(spotify_clients, net_up, rejected))
          IN  /\ last'.ret = RetClient(spotify_clients[i].tok)
              /\ spotify_clients' = SubSeq(spotify_clients, i, Len(spotify_clients))
              /\ Len(last'.calls) = i
              /\ \A j \in 1..i : last'.calls[j] = Call("current_user",
                                                       spotify_clients[j].tok.id)]_vars

\* C6: handles are pooled by user, not by session: with a live handle in the
\* pool, get_authenticated_client returns a pooled handle for a session id that
\* has no OAuth context and no token.
C6_PooledAcrossSessions ==
    [][(/\ last'.op = GAC
        /\ LiveIn(spotify_clients, net_up, rejected) # {}
        /\ last'.sid \notin spotify_auths
        /\ token_cache[last'.sid].k = "none") =>
          /\ last'.ret.k = "client"
          /\ \E i \in LiveIn(spotify_clients, net_up, rejected) :
                last'.ret.tok = spotify_clients[i].tok]_vars

\* C7: whenever authenticate_with_code returns failure, no handle has been added
\* to the pool and no token has been cached for the session id, also when the
\* exchange succeeded and the identity call failed.
C7_FailureLeavesUnauthenticated ==
    [][(last'.op = AWC /\ last'.ret.k = "fail") =>
          /\ spotify_clients' = spotify_clients
          /\ token_cache'[last'.sid] = token_cache[last'.sid]]_vars

\* C8: with a code in the URL, a token from the exchange and a successful
\* identity call, authenticate_with_code stores the new handle under the user id
\* the identity call returned, leaves the token cached for the session id and
\* returns success naming the display name, or the user id when the display
\* name is absent or empty; a get_authenticated_client right after it returns a
\* handle.
C8_SuccessStoresHandle ==
    [][/\ (last'.op = AWC /\ last'.exch = "token" /\ last'.me # NoMe) =>
            LET t == Token(next_tok, last'.me.id)
            IN  /\ last'.ret.k = "ok"
                /\ [user |-> last'.me.id, tok |-> t] \in Entries(spotify_clients')
                /\ Cardinality({i \in 1..Len(spotify_clients') :
                        spotify_clients'[i].user = last'.me.id}) = 1
                /\ token_cache'[last'.sid] = TokEntry(t)
                /\ last'.msg = <<"Successfully authenticated as ",
                                 IF last'.me.display_name \in {PyNone, ""}
                                 THEN last'.me.id ELSE last'.me.display_name>>
       /\ (last'.op = AWC /\ last'.ret.k = "ok") =>
            /\ last'.exch = "token" /\ last'.me # NoMe
            /\ last'.url.code \notin {Absent, ""}
       /\ (last.op = AWC /\ last.ret.k = "ok" /\ last'.op = GAC
             /\ last'.sid = last.sid) => last'.ret.k = "client"]_vars

\* a success whose message falls back to the user id, a second user's handle
\* being pooled already
C8_Witness ==
    /\ last.op = AWC /\ last.ret.k = "ok"
    /\ last.me.display_name = "" /\ last.msg[2] = last.me.id
    /\ Len(spotify_clients) = 2

\* C9: a callback URL with neither a code nor an error parameter gives the
\* missing-authorization-code failure, makes no exchange and no identity call,
\* and leaves the OAuth contexts and the handle pool as they were.
C9_MissingCode ==
    [][(/\ last'.op = AWC
        /\ last'.url.code \in {Absent, ""}
        /\ last'.url.error \in {Absent, ""}) =>
          /\ last'.ret.k = "fail"
          /\ last'.msg = <<"No authorization code found in callback URL">>
          /\ last'.calls = <<>>
          /\ ~last'.created
          /\ spotify_auths' = spotify_auths
          /\ spotify_clients' = spotify_clients]_vars

\* the failure was returned while a handle is pooled
C9_Witness ==
    /\ last.op = AWC /\ last.url = NoUrl /\ last.ret.k = "fail"
    /\ spotify_clients # <<>>

\* what C10 says of step 2 of one call: pool and cache before, the call's record
\* `l` and the pool and cache after
CachedTokenContract(pool, cache, exp, up, rej, l, pool2, cache2) ==
    LET t == cache[l.sid].tok
        refreshes == Called(l.calls, "refresh_access_token")
        n == Len(l.calls)
    IN  /\ (t.id \in exp) <=> (refreshes # {})
        /\ Cardinality(refreshes) <= 1
        /\ \A i \in refreshes : l.calls[i].t = t.id
        /\ l.ret.k \in {"client", "none"}
        /\ l.ret.k = "client" =>
              /\ cache2[l.sid] = TokEntry(l.ret.tok)
              /\ l.ret.tok.user = t.user
              /\ (t.id \notin exp) => l.ret.tok = t
              /\ (t.id \in exp) => l.ret.tok.id \notin {t.id} \cup
                                      {pool[i].tok.id : i \in 1..Len(pool)}
              /\ l.calls[n] = Call("current_user", l.ret.tok.id)
              /\ [user |-> l.ret.tok.user, tok |-> l.ret.tok] \in Entries(pool2)
        /\ l.ret.k = "none" => Entries(pool2) \subseteq Entries(pool)
        /\ (t.id \notin exp /\ up /\ t.id \notin rej) => l.ret.k = "client"

\* C10 as stated: no pooled handle is live and a token is cached for the
\* session id.
C10_CachedTokenAsStated ==
    [][(/\ last'.op = GAC
        /\ LiveIn(spotify_clients, net_up, rejected) = {}
        /\ token_cache[last'.sid].k = "token") =>
          CachedTokenContract(spotify_clients, token_cache, clock_expired, net_up,
                              rejected, last', spotify_clients', token_cache')]_vars

\* C10 amended: no pooled handle is live, the session id has an OAuth context
\* and a token is cached for it: a refresh is attempted exactly when the token
\* is expired, once, with that token's refresh token; a returned handle is
\* built from the resulting token, validated and pooled under its user id; on
\* failure nothing is added to the pool.  Without an OAuth context the cache
\* is not read and 'no session' is returned.
C10_CachedTokenWithContext ==
    [][/\ (/\ last'.op = GAC
           /\ LiveIn(spotify_clients, net_up, rejected) = {}
           /\ last'.sid \in spotify_auths
           /\ token_cache[last'.sid].k = "token") =>
             CachedTokenContract(spotify_clients, token_cache, clock_expired,
                                 net_up, rejected, last', spotify_clients',
                                 token_cache')
       /\ (/\ last'.op = GAC
           /\ LiveIn(spotify_clients, net_up, rejected) = {}
           /\ last'.sid \notin spotify_auths) =>
             /\ last'.ret.k = "none"
             /\ Called(last'.calls, "get_cached_token") = {}
             /\ Called(last'.calls, "refresh_access_token") = {}]_vars

\* an expired cached token was refreshed and the new handle returned, after a
\* pooled handle had failed its probe
C10_Witness ==
    /\ last.op = GAC /\ last.ret.k = "client"
    /\ Called(last.calls, "refresh_access_token") # {}
    /\ last.calls[1].c = "current_user"
    /\ Len(last.calls) >= 5

\* ------------------------------------------------------------------------
\* C24: whenever analyze_mood or generate_custom_playlist_ai returns a result
\* without an error key, the result's recommended_songs is a non-empty list.
C24_NoErrorMeansCandidates ==
    (pipe_reco # NoDoc /\ "error" \notin pipe_reco.keys)
        => (pipe_reco.songs_sized /\ pipe_reco.recommended_songs # <<>>)

\* ------------------------------------------------------------------------
\* C21: every entry point ends with a usable result or a user-facing error,
\* whatever the authentication, oracle, search and playlist calls do; no
\* exception leaves the entry point.
C21_EntryPointsNeverRaise ==
    pipe_pc = "done" => pipe_out.k # "raised"

\* ------------------------------------------------------------------------
\* C31: once a track is accepted for a candidate, no further search and no
\* further artist lookup is made for that candidate: the resolver goes to the
\* next candidate, whatever tracks, queries and markets remain; and once
\* target_count identifiers are collected the run ends without a further call.
C31_AcceptanceEndsTheCandidate ==
    [][/\ (r_pc \in {"search", "inspect"}) => ~found_track
       /\ (r_pc = "inspect" /\ found_track')
             => (r_pc' = "head" /\ r_cand' = r_cand + 1)
       /\ (r_pc = "head" /\ Len(track_uris) >= target_count)
             => (r_pc' = "done" /\ catalog_called' = catalog_called
                   /\ artist_info' = NoLookup)]_vars

\* a track was accepted at the first market and query while the result held
\* further tracks, and the resolver stands at the next candidate
C31_Witness ==
    /\ r_pc = "head" /\ found_track /\ r_cand = 2
    /\ r_market = 1 /\ r_query = 1
    /\ r_track < Len(r_results)
    /\ Len(Markets) > 1

\* ------------------------------------------------------------------------
\* C38: search_ai_recommended_tracks always terminates.  Within a candidate
\* every step moves forward: a search at (market, query) is followed by the
\* inspection of its tracks one after the other, each with at most one artist
\* lookup, then by a later (market, query) pair or by the next candidate; so
\* no pair is issued twice, a candidate costs at most |markets| x |queries|
\* <= 16 searches, and the run ends.
PairBefore(m1, q1, m2, q2) == m1 < m2 \/ (m1 = m2 /\ q1 < q2)

C38_Forward ==
    (r_pc \in {"search", "inspect"}) =>
        \/ r_pc' = "head" /\ r_cand' = r_cand + 1
        \/ /\ r_pc' = "search" /\ r_cand' = r_cand
           /\ PairBefore(r_market, r_query, r_market', r_query')
        \/ /\ r_pc' = "inspect" /\ r_cand' = r_cand
           /\ r_market' = r_market /\ r_query' = r_query
           /\ r_results' # <<>>
           /\ IF r_pc = "search" THEN r_track' = 1
              ELSE r_track' = r_track + 1 /\ r_results' = r_results

C38_InRange ==
    (r_pc \in {"search", "inspect"}) =>
        /\ r_market \in 1..Len(Markets) /\ r_query \in 1..Len(Queries)
        /\ Len(Markets) * Len(Queries) <= 16
        /\ r_pc = "inspect" => r_track \in 1..Len(r_results)

C38_Terminates ==
    /\ [][C38_InRange /\ C38_Forward]_vars
    /\ <>(r_pc = "done")

\* a run that ended after the last (market, query) pair of its last candidate
\* was searched without an acceptance
C38_Witness ==
    /\ r_pc = "done" /\ r_ret = <<>> /\ catalog_called
    /\ search_data.recommended_songs = <<LabelAB>>
    /\ Len(Markets) = 4 /\ r_market = 4 /\ r_query = 4
    /\ target_count > 0

\* ------------------------------------------------------------------------
\* C39: four queries are used exactly when the trimmed artist and the trimmed
\* title are both non-empty; otherwise exactly two, the quoted and the plain
\* title, and no query with an empty title is sent to the catalog.
C39_QueriesCarryATitle ==
    (r_pc = "search") =>
        /\ (Len(Queries) = 4)
              <=> (ParseLabel(Song).artist # <<>> /\ ParseLabel(Song).title # <<>>)
        /\ Len(Queries) \in {2, 4}
        /\ Len(Queries) = 2 =>
              Queries = << <<"\"">> \o ParseLabel(Song).title \o <<"\"">>,
                          ParseLabel(Song).title >>
        /\ ParseLabel(Song).title # <<>>

\* ------------------------------------------------------------------------
\* C40: an accepted track adds its identifier to the result exactly once,
\* also when the log line after the append raises.
C40_AppendedOnce ==
    [][(r_pc = "inspect") =>
          /\ found_track' => track_uris' = Append(track_uris, Inspected.uri)
          /\ ~found_track' => track_uris' = track_uris]_vars

\* ------------------------------------------------------------------------
\* C32: in each entry point the stages run in the order authentication
\* check, oracle, resolve, publish, and the entry point stops at the first
\* stage that fails: no oracle call without an authenticated session, no
\* search after an oracle error, no create_playlist (and no playlist) after
\* an empty resolution.
PipeOrder ==
    [idle |-> {"oracle", "auth_url", "done"}, auth_url |-> {"done"},
     oracle |-> {"search", "done"}, search |-> {"create", "done"},
     create |-> {"reauth_url", "done"}, reauth_url |-> {"done"}, done |-> {}]

C32_StagesInOrder ==
    [][/\ pipe_pc' # pipe_pc => pipe_pc' \in PipeOrder[pipe_pc]
       /\ pipe_pc' = "oracle" =>
             (pipe_pc = "oracle"
                \/ (last'.op = "is_authenticated" /\ last'.ret.k = "true"))
       /\ pipe_reco' # pipe_reco => pipe_pc = "oracle"
       /\ (pipe_pc = "idle" /\ pipe_pc' # "idle" /\ pipe_pc' # "oracle")
             => pipe_reco' = NoDoc
       /\ (pipe_pc = "oracle" /\ "error" \in pipe_reco'.keys)
             => (pipe_pc' = "done" /\ UNCHANGED <<authVars, pubVars>>)
       /\ pipe_pc' = "search" => (pipe_reco' # NoDoc /\ "error" \notin pipe_reco'.keys)
       /\ pipe_uris' # pipe_uris => pipe_pc = "search"
       /\ (pipe_pc = "search" /\ pipe_pc' # "search" /\ pipe_uris' = <<>>)
             => (pipe_pc' = "done" /\ UNCHANGED pubVars)
       /\ pipe_pc' = "create" => pipe_uris' # <<>>
       /\ pubVars' # pubVars => (pipe_pc = "create" /\ pipe_uris # <<>>)]_vars

\* the oracle named a candidate, the resolution came back empty, and the
\* entry point ended without a call of create_playlist
C32_Witness ==
    /\ pipe_pc = "done" /\ pipe_out.k = "no_tracks"
    /\ pipe_reco.recommended_songs # <<>>
    /\ last.ret.k = "client"
    /\ playlists = <<>> /\ p_ret = NotCalled /\ p_calls = <<>>

\* ------------------------------------------------------------------------
\* C37: whenever create_playlist has created the playlist and the add-items
\* call for the whole track list has succeeded, it reports success: an error
\* result means that the playlist was not created or not populated.
C37_PopulatedMeansSuccess ==
    (/\ p_tracks # <<>>
     /\ PCalled(p_calls, "playlist_add_items") # {}
     /\ playlists # <<>>
     /\ playlists[Len(playlists)].items = p_tracks)
        => p_ret.k = "success"

\* ------------------------------------------------------------------------
\* C35: probe-triggered eviction heals the pool: after a call of
\* get_authenticated_client or is_authenticated in which no handle pooled at
\* its start passed its probe, none of those handles is left in the pool.
C35_StalePoolIsEmptied ==
    [][(/\ last'.op \in {GAC, "is_authenticated"}
        /\ LiveIn(spotify_clients, net_up, rejected) = {}) =>
          \A i \in 1..Len(spotify_clients) :
             spotify_clients[i] \notin Entries(spotify_clients')]_vars

\* ------------------------------------------------------------------------
\* C36: every entry of the pool was put there after an identity call on its
\* handle succeeded and is keyed by the user id that call returned; the pool
\* holds at most one handle per user id, and authenticating a user again
\* replaces the earlier handle.
PoolKeyed(pool) ==
    /\ \A i \in 1..Len(pool) : pool[i].user = pool[i].tok.user
    /\ Cardinality(PoolUsers(pool)) = Len(pool)

C36_PoolHoldsValidatedHandles ==
    [][/\ PoolKeyed(spotify_clients')
       /\ \A e \in Entries(spotify_clients') \ Entries(spotify_clients) :
             /\ last'.op \in {GAC, "is_authenticated", AWC}
             /\ last'.calls # <<>>
             /\ last'.calls[Len(last'.calls)] = Call("current_user", e.tok.id)
             /\ e.tok.id \notin rejected /\ net_up'
       /\ (last'.op = AWC /\ last'.ret.k = "ok") =>
             /\ PoolUsers(spotify_clients')
                   = PoolUsers(spotify_clients) \cup {last'.me.id}
             /\ \A i \in 1..Len(spotify_clients') :
                   spotify_clients'[i].user = last'.me.id
                      => spotify_clients'[i].tok.id = next_tok]_vars

\* a user authenticated a second time: the pool holds one handle, the new one
C36_Witness ==
    /\ last.op = AWC /\ last.ret.k = "ok"
    /\ Len(spotify_clients) = 1
    /\ spotify_clients[1].tok.id = 2
    /\ token_cache["default"].tok.id = 2

\* ------------------------------------------------------------------------
\* C33: nothing excludes two calls for one session id from each other: a call
\* that reads an expired cached token begins a refresh with it whatever the
\* other call is doing, so two refreshes of one token can be in flight.
C33_RefreshIsNotExcluded ==
    [][\A th \in Threads :
          (/\ t_pc[th] = "step2" /\ t_pc'[th] # "step2"
           /\ "default" \in spotify_auths
           /\ token_cache["default"].k = "token"
           /\ IsTokenExpired(token_cache["default"].tok))
             => (/\ t_pc'[th] = "refresh"
                 /\ t_tok'[th] = token_cache["default"].tok)]_vars

\* both calls wait for the answer to a refresh of the same stored token
C33_Witness ==
    /\ \A th \in Threads : t_pc[th] = "refresh"
    /\ t_tok[1] = t_tok[2]
    /\ t_tok[1] = token_cache["default"].tok

\* ------------------------------------------------------------------------
\* C34: under every interleaving of the calls on the shared pool each call
\* ends by returning a handle or none; no call raises.
C34_NoCallRaises ==
    \A th \in Threads : t_ret[th].k # "raised"

====
